---- MODULE Spec2Model ----
(***************************************************************************)
(* Package-delivery marketplace client: the local store                    *)
(* (src/lib/local-package-service.ts), the relay client                    *)
(* (src/lib/nostr-service.ts, the revision that exports createSignedEvent) *)
(* and the package service built on both (src/lib/nostr.ts).               *)
(*                                                                         *)
(* These specifications share the variables:                               *)
(*   Spec          the local store and the package service; every relay    *)
(*                 answer is an input of the call that asks for it         *)
(*   SpecStore     the local store alone, export and import included       *)
(*   SpecFetch     one listEvents call, step by step, with a clock         *)
(*   SpecPublish   one publishEvent call, step by step, with a clock       *)
(*   SpecWrite     one writing call of the package service, step by step,  *)
(*                 with the broadcast of its event                         *)
(*   SpecComplete  completeDelivery of src/unnamed/part_010 with its       *)
(*                 attempts, step by step, each with its publishEvent      *)
(*   SpecCodec     the conversions between a listing and its event         *)
(*   SpecReconcile the stored statuses under the store's writes and the    *)
(*                 status reconciliations of src/unnamed/part_010          *)
(*   SpecRelays    the stored relay list under setRelays and the save      *)
(*                 button of the relay configuration                       *)
(*   SpecProbe     one relay probe, step by step, with a clock             *)
(***************************************************************************)
EXTENDS Integers, Sequences, FiniteSets, TLC

\* ------------------------------------------------------------------ bounds
MaxLocal == 2        \* local ids that saveLocalPackage may generate
MaxEventIds == 1     \* ids an event signed elsewhere may carry
MaxFetched == 2      \* events one relay query may yield
MaxOps == 4          \* writing calls in one behaviour
MaxTimeoutSteps == 2 \* the longest timeoutMs tried, in retry delays
NumRelays == 3       \* relays getRelays() yields (the code keeps at least 3)

\* ------------------------------------------------------- values and records
Users == {"A", "B"}
NoKey == ""

LocalIds == 1..MaxLocal
EventIds == (MaxLocal + 1)..(MaxLocal + MaxEventIds)
Ids == LocalIds \cup EventIds
NoId == 0

NoTime == 0

\* What the user types into the post-package form (Omit<PackageData,'id'|'status'>).
Draft(t, p, d, c, descr) ==
  [title |-> t, pickupLocation |-> p, destination |-> d, cost |-> c,
   description |-> descr]
Drafts == { Draft("sofa", "north", "south", "10000", ""),
            Draft("book", "east", "west", "250", "fragile") }
\* A listing somebody else published; differs from every local draft.
RemoteDraft == Draft("crate", "dock", "depot", "777", "remote")

\* PackageData as stored and returned; "" and 0 stand for undefined.
Package(id, dr, st, pk, created, courier, pickup, deliv) ==
  [id |-> id, title |-> dr.title, pickupLocation |-> dr.pickupLocation,
   destination |-> dr.destination, cost |-> dr.cost,
   description |-> dr.description, status |-> st, pubkey |-> pk,
   created_at |-> created, courier_pubkey |-> courier,
   pickup_time |-> pickup, delivery_time |-> deliv]

DraftOf(p) == Draft(p.title, p.pickupLocation, p.destination, p.cost, p.description)

\* The result of spreading null: every field undefined.
EmptyDraft == Draft("", "", "", "", "")
NullPackage == Package(NoId, EmptyDraft, "", NoKey, NoTime, NoKey, NoTime, NoTime)

\* ------------------------------------------------------------ event content
\* The content string of an event, by what JSON.parse and the checks make of it.
\*   "undefined" undefined or null                (falsy, no string)
\*   "nonstring" a truthy value that is no string
\*   "empty"     the empty string                 (falsy)
\*   "blank"     only white space
\*   "text"      a string that is neither JSON nor brace-delimited
\*   "braced"    starts with { and ends with } but is no JSON
\*   "scalar"    JSON of a number
\*   "jsonnull"  the JSON text null
\*   "object"    JSON of an object; obj holds its fields
EmptyObj ==
  [title |-> "", pickupLocation |-> "", destination |-> "", cost |-> "",
   description |-> "", status |-> "", courier_pubkey |-> NoKey,
   pickup_time |-> NoTime, delivery_time |-> NoTime, package_id |-> NoId]

Raw(form) == [form |-> form, obj |-> EmptyObj]
ObjectContent(o) == [form |-> "object", obj |-> o]

\* A content built from the required fields and the status only.
PackageContent_noDescription(dr, st) ==
  ObjectContent([EmptyObj EXCEPT !.title = dr.title,
                                 !.pickupLocation = dr.pickupLocation,
                                 !.destination = dr.destination,
                                 !.cost = dr.cost,
                                 !.status = st])

\* JSON.stringify({...packageData, status}) as createPackage builds it.
PackageContent(dr, st) ==
  ObjectContent([EmptyObj EXCEPT !.title = dr.title,
                                 !.pickupLocation = dr.pickupLocation,
                                 !.destination = dr.destination,
                                 !.cost = dr.cost,
                                 !.description = dr.description,
                                 !.status = st])

\* JSON.stringify of the delivery content pickupPackage builds.
DeliveryContent(pid, st, courier, pickup, deliv) ==
  ObjectContent([EmptyObj EXCEPT !.package_id = pid, !.status = st,
                                 !.courier_pubkey = courier,
                                 !.pickup_time = pickup,
                                 !.delivery_time = deliv])

KIND_PACKAGE == 30001
KIND_DELIVERY == 30002

Event(id, pk, created, kind, content) ==
  [id |-> id, pubkey |-> pk, created_at |-> created, kind |-> kind,
   content |-> content]

\* null where an event is expected.
NullEvent == Event(NoId, NoKey, NoTime, 0, Raw("undefined"))

\* ---------------------------------------------------------------- variables
VARIABLES
  shared_packages,   \* localStorage 'shared_packages_v1' (parsed)
  packagesKeySet,    \* whether that key has ever been written
  my_deliveries,     \* localStorage 'my_deliveries_v2' (parsed; absent = [])
  shared_export,     \* sessionStorage 'shared_packages_export' (parsed)
  exportSet,         \* whether that key is present
  nostr_pubkey,      \* localStorage 'nostr_pubkey': the current user
  idCounter,         \* how many local ids have been generated
  ops,               \* how many writing calls have been made
  clock,             \* Math.floor(Date.now() / 1000); the calls explored all
                     \* fall into one second
  lastCreated,       \* the listing the latest createPackage stored (its local
                     \* id and the draft), until the store is written again
  obs,               \* the call that has just returned, with what it returned
  fetch,             \* the listEvents call of SpecFetch
  pub,               \* the publishEvent call of SpecPublish and SpecWrite
  call,              \* the write call of SpecWrite, step by step
  codec,             \* the conversion SpecCodec has just applied
  relays,            \* localStorage 'relays' (parsed)
  probe              \* the checkRelay call of SpecProbe

vars == <<shared_packages, packagesKeySet, my_deliveries, shared_export,
          exportSet, nostr_pubkey, idCounter, ops, clock, lastCreated, obs,
          fetch, pub, call, codec, relays, probe>>

\* ------------------------------------------------------- sequence helpers
RECURSIVE SeqMap(_, _)
SeqMap(F(_), s) ==
  IF s = <<>> THEN <<>> ELSE <<F(Head(s))>> \o SeqMap(F, Tail(s))

SeqIds(s) == { s[i].id : i \in 1..Len(s) }

\* Array.prototype.find: the first element with the id, NullPackage if none.
FindById(s, id) ==
  IF \E i \in 1..Len(s) : s[i].id = id
  THEN s[CHOOSE i \in 1..Len(s) :
           s[i].id = id /\ \A j \in 1..(i - 1) : s[j].id # id]
  ELSE NullPackage

\* ----------------------------------------------- local-package-service.ts
getUserPubkey == nostr_pubkey

\* getMyLocalDeliveries and getLocalPackages as the user u sees them.
getMyLocalDeliveriesOf(u) ==
  SelectSeq(my_deliveries, LAMBDA p : p.courier_pubkey = u)

getLocalPackagesOf(u) ==
  LET pickedUpIds == SeqIds(getMyLocalDeliveriesOf(u))
  IN  SelectSeq(shared_packages, LAMBDA p : p.id \notin pickedUpIds)

getMyLocalDeliveries == getMyLocalDeliveriesOf(getUserPubkey)

getLocalPackages == getLocalPackagesOf(getUserPubkey)

\* saveLocalPackage without its push: the list is written back as it was read.
saveLocalPackage_list_noPush(dr, id) == getLocalPackages

\* saveLocalPackage: the list it writes back, given the generated id.
saveLocalPackage_list(dr, id) ==
  Append(getLocalPackages,
         Package(id, dr, "available", getUserPubkey, clock, NoKey, NoTime, NoTime))

\* A pickup that goes on without the 'Package not found' test.
pickupLocalPackage_found_noTest(id) == id \in Ids

\* packages.find((pkg) => pkg.id === packageId) found a package.
pickupLocalPackage_found(id) == id \in SeqIds(getLocalPackages)

pickupLocalPackage_packages(id) ==
  SelectSeq(getLocalPackages, LAMBDA p : p.id # id)

pickupLocalPackage_deliveries(id) ==
  LET packageToPickup == FindById(getLocalPackages, id)
  IN  Append(my_deliveries,
             [packageToPickup EXCEPT !.status = "in_transit",
                                     !.courier_pubkey = getUserPubkey,
                                     !.pickup_time = clock])

\* A delete that skips the test of the package's pubkey.
deleteLocalPackage_owned_noOwnerTest(id) ==
  /\ packagesKeySet
  /\ id \in SeqIds(shared_packages)

\* deleteLocalPackage goes on to the splice: the key is stored, findIndex
\* found the id, and the package found belongs to the current user.
deleteLocalPackage_owned(id) ==
  /\ packagesKeySet
  /\ id \in SeqIds(shared_packages)
  /\ FindById(shared_packages, id).pubkey = getUserPubkey

\* packages.splice(packageIndex, 1) at the index findIndex returned.
deleteLocalPackage_packages(id) ==
  LET packageIndex == CHOOSE i \in 1..Len(shared_packages) :
                        /\ shared_packages[i].id = id
                        /\ \A j \in 1..(i - 1) : shared_packages[j].id # id
  IN  SubSeq(shared_packages, 1, packageIndex - 1)
      \o SubSeq(shared_packages, packageIndex + 1, Len(shared_packages))

\* A completion that sets the status and forgets the delivery time.
completeLocalDelivery_noTime(id) ==
  LET upd(p) == IF p.id = id THEN [p EXCEPT !.status = "delivered"] ELSE p
  IN  SeqMap(upd, my_deliveries)

completeLocalDelivery_deliveries(id) ==
  LET upd(p) == IF p.id = id
                THEN [p EXCEPT !.status = "delivered", !.delivery_time = clock]
                ELSE p
  IN  SeqMap(upd, my_deliveries)

getLocalPackageById(id) ==
  IF id \in SeqIds(getLocalPackages)
  THEN FindById(getLocalPackages, id)
  ELSE FindById(my_deliveries, id)

\* A merge that pushes every exported package, stored or not.
importMerge_noTest(existing, sharedPkgs) == existing \o sharedPkgs

\* The merge loop of importSharedPackages: an exported package is pushed when
\* no package of the list built so far has its id.
RECURSIVE importMerge(_, _)
importMerge(existing, sharedPkgs) ==
  IF sharedPkgs = <<>> THEN existing
  ELSE IF Head(sharedPkgs).id \in SeqIds(existing)
       THEN importMerge(existing, Tail(sharedPkgs))
       ELSE importMerge(Append(existing, Head(sharedPkgs)), Tail(sharedPkgs))

\* ------------------------------------------------------------ nostr.ts
\* An exception on its way out of a function that returns a package.
Thrown == [NullPackage EXCEPT !.status = "TypeError"]

\* parsePackageFromEvent inside its outer try; NullPackage stands for null.
parsePackageFromEvent_try(event) ==
  LET c == event.content
      o == c.obj
  IN  IF event = NullEvent
      THEN Thrown                           \* null has no content
      ELSE IF c.form \in {"undefined", "empty", "nonstring", "blank"}
      THEN NullPackage                      \* no content, no string, or blank
      ELSE IF c.form \in {"text", "braced"}
      THEN NullPackage                      \* JSON.parse throws, caught inside
      ELSE IF c.form = "jsonnull"
      THEN Thrown                           \* null has no title
      ELSE IF c.form = "scalar"
      THEN NullPackage                      \* every field undefined
      ELSE IF o.title = "" \/ o.pickupLocation = "" \/ o.destination = ""
              \/ o.cost = ""
      THEN NullPackage
      ELSE [id |-> event.id, title |-> o.title,
            pickupLocation |-> o.pickupLocation,
            destination |-> o.destination, cost |-> o.cost,
            description |-> o.description,
            status |-> IF o.status = "" THEN "available" ELSE o.status,
            pubkey |-> event.pubkey, created_at |-> event.created_at,
            courier_pubkey |-> o.courier_pubkey,
            pickup_time |-> o.pickup_time,
            delivery_time |-> o.delivery_time]

\* parsePackageFromEvent without its outer catch.
parsePackageFromEvent_noCatch(event) == parsePackageFromEvent_try(event)

\* parsePackageFromEvent: the outer catch turns every exception into null.
parsePackageFromEvent(event) ==
  LET r == parsePackageFromEvent_try(event)
  IN  IF r = Thrown THEN NullPackage ELSE r

\* A merge that lets the remote package replace the entry with its id.
RECURSIVE mergePackages_remoteWins(_, _)
mergePackages_remoteWins(allPackages, nostrPackages) ==
  IF nostrPackages = <<>> THEN allPackages
  ELSE LET n == Head(nostrPackages)
           repl(p) == IF p.id = n.id THEN n ELSE p
       IN  IF n.id \in SeqIds(allPackages)
           THEN mergePackages_remoteWins(SeqMap(repl, allPackages),
                                         Tail(nostrPackages))
           ELSE mergePackages_remoteWins(Append(allPackages, n),
                                         Tail(nostrPackages))

\* A merge that forgets the local list as soon as the relays answer.
mergePackages_remoteOnly(allPackages, nostrPackages) == nostrPackages

\* The combination of the first revision (src/unnamed/part_010:203-209):
\* every relay package, then the local packages whose id no relay package
\* has.
mergePackages_firstRevision(allPackages, nostrPackages) ==
  nostrPackages
  \o SelectSeq(allPackages, LAMBDA p : p.id \notin SeqIds(nostrPackages))

\* The merge loop of getPackages: a remote package is pushed only when no
\* entry of the list built so far has its id.
RECURSIVE mergePackages(_, _)
mergePackages(allPackages, nostrPackages) ==
  IF nostrPackages = <<>> THEN allPackages
  ELSE IF Head(nostrPackages).id \in SeqIds(allPackages)
       THEN mergePackages(allPackages, Tail(nostrPackages))
       ELSE mergePackages(Append(allPackages, Head(nostrPackages)),
                          Tail(nostrPackages))

\* getPackages, given the events its listEvents call returned.
getPackages(events) ==
  LET localPackages == getLocalPackages
      nostrPackages == SelectSeq(SeqMap(parsePackageFromEvent, events),
                                 LAMBDA p : p # NullPackage)
  IN  IF events = <<>> THEN localPackages
      ELSE mergePackages(localPackages, nostrPackages)

\* getMyDeliveries, given the events its listEvents call returned and, for
\* the i-th of them, what getEventById(content.package_id) returned.
RECURSIVE collectDeliveries(_, _, _)
collectDeliveries(events, found, i) ==
  IF i > Len(events) THEN <<>>
  ELSE LET c == events[i].content
           o == c.obj
           packageData == parsePackageFromEvent(found[i])
           rest == collectDeliveries(events, found, i + 1)
       IN  IF c.form = "object" /\ o.courier_pubkey = getUserPubkey
              /\ found[i] # NullEvent
           THEN <<[packageData EXCEPT
                     !.status = IF o.status = "" THEN "in_transit" ELSE o.status,
                     !.courier_pubkey = o.courier_pubkey,
                     !.pickup_time = o.pickup_time,
                     !.delivery_time = o.delivery_time]>> \o rest
           ELSE rest    \* JSON.parse threw, another courier, or no package event

getMyDeliveries(events, found) ==
  LET myDeliveries == collectDeliveries(events, found, 1)
  IN  IF myDeliveries = <<>> THEN getMyLocalDeliveries ELSE myDeliveries

\* getPackageById(id): event is what getEventById(id) returned,
\* deliveryEvents what listEvents returned for the package, packageEvent what
\* getEventById returned for the package_id of the first of them.  null is
\* NullPackage.
getPackageById(id, event, deliveryEvents, packageEvent) ==
  IF event # NullEvent THEN parsePackageFromEvent(event)
  ELSE IF Len(deliveryEvents) > 0
          /\ deliveryEvents[1].content.form = "object"
          /\ packageEvent # NullEvent
  THEN LET content == deliveryEvents[1].content.obj
       IN  [parsePackageFromEvent(packageEvent) EXCEPT
              !.status = IF content.status = "" THEN "in_transit"
                         ELSE content.status,
              !.courier_pubkey = content.courier_pubkey,
              !.pickup_time = content.pickup_time,
              !.delivery_time = content.delivery_time]
  ELSE getLocalPackageById(id)   \* nothing found, or JSON.parse threw

\* ------------------------------------------------------ nostr-service.ts
listEvents_maxRetries_more == 3 + 1
listEvents_maxRetries == 3
getEventById_maxRetries == 3

\* What one fetchEventsWithTimeout call settles with: the events pool.get
\* yielded (none when the timeout won), or a rejection.
Resolved(events) == [res |-> "resolve", events |-> events]
Rejected == [res |-> "reject", events |-> <<>>]

IsString(c) == c.form \notin {"undefined", "nonstring"}

\* The content filter of listEvents.
looksLikeJSON(kinds, event) ==
  IF (KIND_PACKAGE \in kinds \/ KIND_DELIVERY \in kinds) /\ IsString(event.content)
  THEN event.content.form \in {"braced", "object"}
  ELSE TRUE

\* A listEvents that queries with the first filter as it was given.
fixedFilter_asGiven(filters) ==
  IF Len(filters) > 0 THEN filters[1] ELSE [kinds |-> {}]

\* A filter is a record with the set of kinds it asks for.
fixedFilter(filters) ==
  IF Len(filters) > 0 /\ filters[1].kinds # {}
  THEN filters[1] ELSE [kinds |-> {KIND_PACKAGE}]

\* The retry loop of listEvents; attempts[k] is how the k-th fetch settles.
RECURSIVE listEvents_loop(_, _, _)
listEvents_loop(kinds, attempts, retries) ==
  IF retries >= listEvents_maxRetries THEN <<>>
  ELSE LET a == attempts[retries + 1]
           filteredEvents ==
             SelectSeq(a.events, LAMBDA e : looksLikeJSON(kinds, e))
       IN  IF a.res = "reject"
           THEN listEvents_loop(kinds, attempts, retries + 1)
           ELSE IF Len(filteredEvents) > 0 THEN filteredEvents
           ELSE listEvents_loop(kinds, attempts, retries + 1)

listEvents(filters, attempts) ==
  listEvents_loop(fixedFilter(filters).kinds, attempts, 0)

\* getEventById: answers[k] is what the k-th pool.get settles with, an
\* event, NullEvent, or RejectedGet.
RejectedGet == Event(NoId, NoKey, NoTime, 0, Raw("nonstring"))

RECURSIVE getEventById_loop(_, _)
getEventById_loop(answers, retries) ==
  IF retries >= getEventById_maxRetries THEN NullEvent
  ELSE LET a == answers[retries + 1]
       IN  IF a \notin {NullEvent, RejectedGet} THEN a
           ELSE getEventById_loop(answers, retries + 1)

getEventById(answers) == getEventById_loop(answers, 0)

\* ------------------------------------------------- what the relays answer
RelayAuthor == "B"

\* Ids under which the relays hold events: the first local id (an event that
\* carries the id of a locally stored package) and the ids of foreign events.
RelayIds == {1} \cup EventIds

\* A listing as first published (created at 1), the same listing republished
\* as in transit (created at 2), braces around something that is no JSON, and
\* plain text.
RelayPackageEvents ==
  { Event(id, RelayAuthor, 1, KIND_PACKAGE, PackageContent(RemoteDraft, "")) :
      id \in RelayIds }
  \cup
  { Event(id, RelayAuthor, 2, KIND_PACKAGE,
          PackageContent(RemoteDraft, "in_transit")) : id \in RelayIds }
  \cup
  { Event(id, RelayAuthor, 1, KIND_PACKAGE, Raw(f)) :
      id \in RelayIds, f \in {"braced", "text"} }

RelayDeliveryEvents ==
  { Event(MaxLocal + 1, u, 1, KIND_DELIVERY,
          DeliveryContent(pid, "", u, 1, NoTime)) :
      pid \in RelayIds, u \in Users }
  \cup { Event(MaxLocal + 1, RelayAuthor, 1, KIND_DELIVERY, Raw("braced")) }

SeqsUpTo(S, n) == UNION { [1..k -> S] : k \in 0..n }

\* How the three fetches of one listEvents call may settle when the relays
\* hold the events es: at once, or after a rejection and a timeout.
FetchRun(es, flaky) ==
  IF flaky THEN <<Rejected, Resolved(<<>>), Resolved(es)>>
  ELSE <<Resolved(es), Resolved(es), Resolved(es)>>
\* Every fetch is rejected.
FetchFails == <<Rejected, Rejected, Rejected>>

\* What the relays hold under an id asked for by getEventById.
RelayHolds == {"nothing", "listing"}
HeldEvent(id, h) ==
  IF h = "nothing" THEN NullEvent
  ELSE Event(id, RelayAuthor, 1, KIND_PACKAGE, PackageContent(RemoteDraft, ""))

\* How the three pool.get calls of one getEventById settle when the relays
\* hold e: at once, or after a rejection and an empty answer.
GetRun(e, flaky) ==
  IF flaky THEN <<RejectedGet, NullEvent, e>> ELSE <<e, e, e>>

\* ------------------------------------------------------------- signing
\* createSignedEvent either fails (no extension, or the extension refuses)
\* or yields an event whose id the extension chose.
SignFailed == NoId
SignOutcomes == EventIds \cup {SignFailed}

\* ------------------------------------------------- the calls and their results
NoListing == [id |-> NoId, draft |-> EmptyDraft]

\* obs holds the call that has just returned: its name, the user who made
\* it, its argument, and what it returned or that it threw.
Idle ==
  [op |-> "idle", user |-> NoKey, arg |-> NoId, draft |-> EmptyDraft,
   ret |-> NoId, localId |-> NoId, threw |-> FALSE, published |-> FALSE,
   events |-> <<>>, list |-> <<>>, count |-> 0, created |-> NoListing]

Called(op, id) == [Idle EXCEPT !.op = op, !.user = getUserPubkey, !.arg = id]

FetchOff == [pc |-> "off"]
PubOff == [pc |-> "off"]
CallOff ==
  [pc |-> "off", op |-> "none", user |-> NoKey, arg |-> NoId,
   draft |-> EmptyDraft, localId |-> NoId, eventId |-> NoId, ret |-> NoId,
   signFailed |-> FALSE, rounds |-> 0, acks |-> 0, waited |-> 0,
   attempt |-> 0]
\* The 'relays' key of localStorage: absent, or the list last written.
\* form is what JSON.parse makes of the stored string: "array", "object" for
\* any other JSON value, "text" for a string that is no JSON.
NotStored == [present |-> FALSE, form |-> "none", list |-> <<>>]
StoredAs(rs) == [present |-> TRUE, form |-> "array", list |-> rs]
StoredRaw(form) == [present |-> TRUE, form |-> form, list |-> <<>>]
ProbeOff == [pc |-> "off"]
CodecOff ==
  [op |-> "none", event |-> NullEvent, draft |-> EmptyDraft,
   result |-> NullPackage]

Init ==
  /\ shared_packages = <<>>
  /\ packagesKeySet = FALSE
  /\ my_deliveries = <<>>
  /\ shared_export = <<>>
  /\ exportSet = FALSE
  /\ nostr_pubkey \in Users
  /\ idCounter = 0
  /\ ops = 0
  /\ clock = 1
  /\ lastCreated = NoListing
  /\ obs = Idle
  /\ fetch = FetchOff
  /\ pub = PubOff
  /\ call = CallOff
  /\ codec = CodecOff
  /\ relays = NotStored
  /\ probe = ProbeOff

\* The effects of the local store's functions on the two storage keys.
saveLocalPackage(dr) ==
  /\ idCounter < MaxLocal
  /\ shared_packages' = saveLocalPackage_list(dr, idCounter + 1)
  /\ packagesKeySet' = TRUE
  /\ idCounter' = idCounter + 1
  /\ lastCreated' = [id |-> idCounter + 1, draft |-> dr]
  /\ UNCHANGED my_deliveries

pickupLocalPackage(id) ==
  IF pickupLocalPackage_found(id)
  THEN /\ shared_packages' = pickupLocalPackage_packages(id)
       /\ packagesKeySet' = TRUE
       /\ my_deliveries' = pickupLocalPackage_deliveries(id)
       /\ lastCreated' = NoListing
       /\ UNCHANGED idCounter
  ELSE UNCHANGED <<shared_packages, packagesKeySet, my_deliveries, lastCreated,
                   idCounter>>                   \* throws 'Package not found'

completeLocalDelivery(id) ==
  /\ my_deliveries' = completeLocalDelivery_deliveries(id)
  /\ lastCreated' = NoListing
  /\ UNCHANGED <<shared_packages, packagesKeySet, idCounter>>

\* The caller takes the result; the next call can start.
Return ==
  /\ obs.op # "idle"
  /\ obs' = Idle
  /\ UNCHANGED <<shared_packages, packagesKeySet, my_deliveries, shared_export,
                 exportSet, nostr_pubkey, idCounter, ops, clock, lastCreated,
                 fetch, pub,
                 call, codec, relays, probe>>

\* nostr-login: another user logs in on this browser.
Login(u) ==
  /\ obs.op = "idle"
  /\ u # nostr_pubkey
  /\ nostr_pubkey' = u
  /\ UNCHANGED <<shared_packages, packagesKeySet, my_deliveries, shared_export,
                 exportSet, idCounter, ops, clock, lastCreated, obs, fetch, pub,
                 call, codec, relays, probe>>

\* ------------------------------------------------------- nostr.ts, the calls
\* createPackage(packageData): save locally, sign, publish, return an id.
createPackage(dr, signed) ==
  /\ obs.op = "idle"
  /\ ops < MaxOps
  /\ ops' = ops + 1
  /\ saveLocalPackage(dr)
  /\ obs' = [Called("createPackage", NoId) EXCEPT
               !.draft = dr, !.localId = idCounter + 1,
               !.published = (signed # SignFailed),
               !.ret = IF signed # SignFailed THEN signed ELSE idCounter + 1]
  /\ UNCHANGED <<shared_export, exportSet, nostr_pubkey, clock, fetch, pub,
                 call, codec, relays, probe>>

\* pickupPackage(packageId): pick up locally (or throw), sign, publish.
pickupPackage(id, signed) ==
  /\ obs.op = "idle"
  /\ ops < MaxOps
  /\ ops' = ops + 1
  /\ pickupLocalPackage(id)
  /\ obs' = IF pickupLocalPackage_found(id)
            THEN [Called("pickupPackage", id) EXCEPT
                    !.published = (signed # SignFailed)]
            ELSE [Called("pickupPackage", id) EXCEPT !.threw = TRUE]
  /\ UNCHANGED <<shared_export, exportSet, nostr_pubkey, clock, fetch, pub,
                 call, codec, relays, probe>>

\* completeDelivery(packageId): complete locally; when the relays show a
\* delivery event for the package, sign and publish its update.
completeDelivery(id, deliveryEventFound, signed) ==
  /\ obs.op = "idle"
  /\ ops < MaxOps
  /\ ops' = ops + 1
  /\ completeLocalDelivery(id)
  /\ obs' = [Called("completeDelivery", id) EXCEPT
               !.published = (deliveryEventFound /\ signed # SignFailed)]
  /\ UNCHANGED <<shared_export, exportSet, nostr_pubkey, clock, fetch, pub,
                 call, codec, relays, probe>>

\* ------------------------------- local-package-service.ts, called directly
\* deleteLocalPackage(packageId): only the owner's package is removed.
deleteLocalPackage(id) ==
  /\ obs.op = "idle"
  /\ ops < MaxOps
  /\ ops' = ops + 1
  /\ IF deleteLocalPackage_owned(id)
     THEN /\ shared_packages' = deleteLocalPackage_packages(id)
          /\ lastCreated' = NoListing
          /\ obs' = [Called("deleteLocalPackage", id) EXCEPT !.count = 1]
     ELSE /\ obs' = Called("deleteLocalPackage", id)
          /\ UNCHANGED <<shared_packages, lastCreated>>
  /\ UNCHANGED <<packagesKeySet, my_deliveries, shared_export, exportSet,
                 nostr_pubkey, idCounter, clock, fetch, pub,
                 call, codec, relays, probe>>

\* sharePackagesWithLocalStorage: copy the stored list to the session store.
sharePackagesWithLocalStorage ==
  /\ obs.op = "idle"
  /\ UNCHANGED ops
  /\ packagesKeySet
  /\ shared_export' = shared_packages
  /\ exportSet' = TRUE
  /\ obs' = Called("sharePackagesWithLocalStorage", NoId)
  /\ UNCHANGED <<shared_packages, packagesKeySet, my_deliveries, nostr_pubkey,
                 idCounter, clock, lastCreated, fetch, pub,
                 call, codec, relays, probe>>

\* importSharedPackages: add the exported packages whose id is not stored.
importSharedPackages ==
  /\ obs.op = "idle"
  /\ UNCHANGED ops
  /\ exportSet
  /\ LET merged == importMerge(shared_packages, shared_export)
     IN  /\ shared_packages' = merged
         /\ obs' = [Called("importSharedPackages", NoId) EXCEPT
                      !.count = Len(merged) - Len(shared_packages)]
  /\ packagesKeySet' = TRUE
  /\ lastCreated' = NoListing
  /\ UNCHANGED <<my_deliveries, shared_export, exportSet, nostr_pubkey,
                 idCounter, clock, fetch, pub,
                 call, codec, relays, probe>>

PackageFilter == <<[kinds |-> {KIND_PACKAGE}]>>
DeliveryFilter == <<[kinds |-> {KIND_DELIVERY}]>>

\* getPackages(): the local list merged with what the relays return.
GetPackages(attempts) ==
  /\ obs.op = "idle"
  /\ LET events == listEvents(PackageFilter, attempts)
     IN  obs' = [Called("getPackages", NoId) EXCEPT
                   !.events = events, !.list = getPackages(events),
                   !.created = lastCreated]
  /\ UNCHANGED <<shared_packages, packagesKeySet, my_deliveries, shared_export,
                 exportSet, nostr_pubkey, idCounter, ops, clock, lastCreated,
                 fetch, pub,
                 call, codec, relays, probe>>

\* getMyDeliveries(): the relays' deliveries, the local ones when none.
GetMyDeliveries(attempts, held, flaky) ==
  /\ obs.op = "idle"
  /\ LET events == listEvents(DeliveryFilter, attempts)
         found == [i \in 1..Len(events) |->
                     getEventById(
                       GetRun(HeldEvent(events[i].content.obj.package_id,
                                        held[i]), flaky))]
     IN  obs' = [Called("getMyDeliveries", NoId) EXCEPT
                   !.events = events,
                   !.list = getMyDeliveries(events, found)]
  /\ UNCHANGED <<shared_packages, packagesKeySet, my_deliveries, shared_export,
                 exportSet, nostr_pubkey, idCounter, ops, clock, lastCreated,
                 fetch, pub,
                 call, codec, relays, probe>>

\* getPackageById(id), with what the relays answered.
GetPackageById(id, event, deliveryEvents, packageEvent) ==
  /\ obs.op = "idle"
  /\ LET pkg == getPackageById(id, event, deliveryEvents, packageEvent)
     IN  obs' = [Called("getPackageById", id) EXCEPT
                   !.events = deliveryEvents,
                   !.list = IF pkg = NullPackage THEN <<>> ELSE <<pkg>>]
  /\ UNCHANGED <<shared_packages, packagesKeySet, my_deliveries, shared_export,
                 exportSet, nostr_pubkey, idCounter, ops, clock, lastCreated,
                 fetch, pub, call, codec, relays, probe>>

Next ==
  \/ Return
  \/ \E u \in Users : Login(u)
  \/ \E dr \in Drafts, signed \in SignOutcomes : createPackage(dr, signed)
  \/ \E id \in Ids, signed \in SignOutcomes : pickupPackage(id, signed)
  \/ \E id \in Ids, f \in BOOLEAN, signed \in SignOutcomes :
       completeDelivery(id, f, signed)
  \/ \E es \in SeqsUpTo(RelayPackageEvents, MaxFetched), flaky \in BOOLEAN :
       GetPackages(FetchRun(es, flaky))
  \/ GetPackages(FetchFails)
  \/ \E es \in SeqsUpTo(RelayDeliveryEvents, MaxFetched), flaky \in BOOLEAN :
       \E held \in [1..Len(es) -> RelayHolds] :
         GetMyDeliveries(FetchRun(es, flaky), held, flaky)

Spec == Init /\ [][Next]_vars

\* The local store under every writing call, the export and the import
\* included; the relays hold nothing, so that every read falls back to the
\* local store.
NextStore ==
  \/ Return
  \/ \E u \in Users : Login(u)
  \/ \E dr \in Drafts, signed \in SignOutcomes : createPackage(dr, signed)
  \/ \E id \in Ids, signed \in SignOutcomes : pickupPackage(id, signed)
  \/ \E id \in Ids, f \in BOOLEAN, signed \in SignOutcomes :
       completeDelivery(id, f, signed)
  \/ \E id \in Ids : deleteLocalPackage(id)
  \/ sharePackagesWithLocalStorage
  \/ importSharedPackages
  \/ \E id \in Ids : GetPackageById(id, NullEvent, <<>>, NullEvent)

SpecStore == Init /\ [][NextStore]_vars

\* ------------------------------------------------------------- SpecFetch
\* One listEvents(filters, timeoutMs) call in steps.  Time is in milliseconds
\* and advances by one retry delay at a time, never past a pending timer.
listEvents_retryDelay == 500
Quantum == listEvents_retryDelay
Timeouts == { k * Quantum : k \in 1..MaxTimeoutSteps }

KIND_METADATA == 0
FilterChoices ==
  { PackageFilter, <<>>, <<[kinds |-> {}]>>, <<[kinds |-> {KIND_METADATA}]>> }

\* What pool.get may resolve with.
FetchEvents ==
  { Event(id, RelayAuthor, 1, KIND_PACKAGE, c) :
      id \in RelayIds, c \in { PackageContent(RemoteDraft, ""), Raw("text") } }

FetchCall(filters, t) ==
  [pc |-> "fetching", t |-> t, kinds |-> fixedFilter(filters).kinds,
   retries |-> 0, elapsed |-> 0, started |-> 0, result |-> <<>>,
   rejected |-> 0, filters |-> filters, pending |-> 0, shared |-> FALSE,
   late |-> 0]

\* listEvents is called; the first fetchEventsWithTimeout arms its timer.
LE_Call(filters, t) ==
  /\ fetch.pc = "off"
  /\ fetch' = FetchCall(filters, t)
  /\ UNCHANGED <<shared_packages, packagesKeySet, my_deliveries, shared_export,
                 exportSet, nostr_pubkey, idCounter, ops, clock, lastCreated,
                 obs, pub,
                 call, codec, relays, probe>>

\* What listEvents does with the events one fetch resolved with.
LE_AfterFetch(events) ==
  LET filteredEvents ==
        SelectSeq(events, LAMBDA e : looksLikeJSON(fetch.kinds, e))
  IN  IF Len(filteredEvents) > 0
      THEN [fetch EXCEPT !.pc = "returned", !.result = filteredEvents]
      ELSE [fetch EXCEPT !.pc = "waiting", !.retries = @ + 1,
                         !.started = fetch.elapsed]

\* pool.get resolves before the timer fires.
LE_GetResolves(events) ==
  /\ fetch.pc = "fetching"
  /\ fetch' = LE_AfterFetch(events)
  /\ UNCHANGED <<shared_packages, packagesKeySet, my_deliveries, shared_export,
                 exportSet, nostr_pubkey, idCounter, ops, clock, lastCreated,
                 obs, pub,
                 call, codec, relays, probe>>

\* The first revision (nostr-service.ts:52-57): the timer resolves listEvents
\* itself with the array that the pending pool.get will push into.
LE_TimedOut_firstRevision ==
  [fetch EXCEPT !.pc = "returned", !.result = <<>>, !.shared = TRUE,
                !.pending = @ + 1]

\* The timer resolves fetchEventsWithTimeout with its still empty array
\* while pool.get is pending; listEvents filters it into a new array, finds
\* it empty and goes on to the retry.
LE_TimedOut == [LE_AfterFetch(<<>>) EXCEPT !.pending = @ + 1]

\* The timer of fetchEventsWithTimeout fires: it resolves with nothing.
LE_Timeout ==
  /\ fetch.pc = "fetching"
  /\ fetch.elapsed = fetch.started + fetch.t
  /\ fetch' = LE_TimedOut
  /\ UNCHANGED <<shared_packages, packagesKeySet, my_deliveries, shared_export,
                 exportSet, nostr_pubkey, idCounter, ops, clock, lastCreated,
                 obs, pub,
                 call, codec, relays, probe>>

\* A catch in listEvents that throws the error on to the caller.
listEvents_rethrown(f) == [f EXCEPT !.pc = "threw", !.rejected = @ + 1]

\* The catch of listEvents: count the attempt, give up after the last one.
listEvents_caught(f) ==
  IF f.retries + 1 >= listEvents_maxRetries
  THEN [f EXCEPT !.pc = "returned", !.retries = @ + 1, !.result = <<>>,
                 !.rejected = @ + 1]
  ELSE [f EXCEPT !.pc = "waiting", !.retries = @ + 1,
                 !.started = f.elapsed, !.rejected = @ + 1]

\* pool.get rejects: fetchEventsWithTimeout rejects into that catch.
LE_GetRejects ==
  /\ fetch.pc = "fetching"
  /\ fetch' = listEvents_caught(fetch)
  /\ UNCHANGED <<shared_packages, packagesKeySet, my_deliveries, shared_export,
                 exportSet, nostr_pubkey, idCounter, ops, clock, lastCreated,
                 obs, pub,
                 call, codec, relays, probe>>

\* The retry delay is over: fetch again, or give up after the last attempt.
LE_RetryDelayOver ==
  /\ fetch.pc = "waiting"
  /\ fetch.elapsed = fetch.started + listEvents_retryDelay
  /\ fetch' = IF fetch.retries < listEvents_maxRetries
              THEN [fetch EXCEPT !.pc = "fetching", !.started = fetch.elapsed]
              ELSE [fetch EXCEPT !.pc = "returned", !.result = <<>>]
  /\ UNCHANGED <<shared_packages, packagesKeySet, my_deliveries, shared_export,
                 exportSet, nostr_pubkey, idCounter, ops, clock, lastCreated,
                 obs, pub,
                 call, codec, relays, probe>>

\* Time passes while listEvents waits, up to the pending timer.
LE_Advance ==
  /\ \/ fetch.pc = "fetching"
        /\ fetch.elapsed + Quantum <= fetch.started + fetch.t
     \/ fetch.pc = "waiting"
        /\ fetch.elapsed + Quantum <= fetch.started + listEvents_retryDelay
  /\ fetch' = [fetch EXCEPT !.elapsed = @ + Quantum]
  /\ UNCHANGED <<shared_packages, packagesKeySet, my_deliveries, shared_export,
                 exportSet, nostr_pubkey, idCounter, ops, clock, lastCreated,
                 obs, pub,
                 call, codec, relays, probe>>

\* The pool.get of an attempt whose timer has fired resolves at last: its
\* events are pushed into the array of that attempt, and the resolve that
\* follows has no effect.  shared says that this array is the one listEvents
\* has returned; late counts the responses that came after the return.
LE_LateResponse(events) ==
  /\ fetch.pc # "off"
  /\ fetch.pending > 0
  /\ fetch' = [fetch EXCEPT
                 !.pending = @ - 1,
                 !.late = IF fetch.pc = "returned" THEN @ + 1 ELSE @,
                 !.result = IF fetch.shared THEN @ \o events ELSE @]
  /\ UNCHANGED <<shared_packages, packagesKeySet, my_deliveries, shared_export,
                 exportSet, nostr_pubkey, idCounter, ops, clock, lastCreated,
                 obs, pub,
                 call, codec, relays, probe>>

\* The caller takes the list.
LE_Done ==
  /\ fetch.pc = "returned"
  /\ fetch' = FetchOff
  /\ UNCHANGED <<shared_packages, packagesKeySet, my_deliveries, shared_export,
                 exportSet, nostr_pubkey, idCounter, ops, clock, lastCreated,
                 obs, pub,
                 call, codec, relays, probe>>

NextFetch ==
  \/ \E filters \in FilterChoices, t \in Timeouts : LE_Call(filters, t)
  \/ \E events \in SeqsUpTo(FetchEvents, MaxFetched) : LE_GetResolves(events)
  \/ LE_Timeout
  \/ LE_GetRejects
  \/ LE_RetryDelayOver
  \/ LE_Advance
  \/ \E events \in SeqsUpTo(FetchEvents, MaxFetched) : LE_LateResponse(events)
  \/ LE_Done

\* Timers fire and time passes: the event loop runs every callback that is due.
SpecFetch ==
  /\ Init
  /\ [][NextFetch]_vars
  /\ WF_vars(LE_Timeout)
  /\ WF_vars(LE_RetryDelayOver)
  /\ WF_vars(LE_Advance)

\* ----------------------------------------------------------- SpecPublish
\* One publishEvent(event) call in steps.  Time is in milliseconds and
\* advances by one retry delay at a time, never past a pending timer.
publishEvent_maxRetries_more == 3 + 1
publishEvent_maxRetries == 3
publishEvent_retryDelay == 1000
attemptPublish_relayTimeout == 5000
PubQuantum == publishEvent_retryDelay
Relays == 1..NumRelays

\* One entry of the array attemptPublish resolves with: the relay's url, or
\* the url prefixed with "failed:".
PublishResult(relay, ok) == [relay |-> relay, failed |-> ~ok]

RECURSIVE attemptPublish_results(_, _)
attemptPublish_results(settled, r) ==
  IF r > NumRelays THEN <<>>
  ELSE <<PublishResult(r, settled[r] = "ok")>>
         \o attemptPublish_results(settled, r + 1)

\* A count that sees no acknowledgement.
successCount_none(results) == 0 * Len(results)

successCount(results) ==
  Cardinality({ i \in 1..Len(results) : ~results[i].failed })

\* The catch of publishEvent: count the attempt, give up after the last one.
publishEvent_caught(p) ==
  IF p.retries + 1 >= publishEvent_maxRetries
  THEN [p EXCEPT !.pc = "returned", !.retries = @ + 1, !.result = <<>>]
  ELSE [p EXCEPT !.pc = "waiting", !.retries = @ + 1, !.started = p.elapsed]

\* What the sig field of an event may hold: a signature, the empty string,
\* nothing, or a value that is no string.
SigForms == {"string", "empty", "missing", "number"}

\* A test that lets every truthy sig pass.
attemptPublish_signed_anyTruthy(form) == form \notin {"empty", "missing"}

\* The event passes `!event.sig || typeof event.sig !== 'string'`.
attemptPublish_signed(form) ==
  ~(form \in {"empty", "missing"} \/ form \notin {"empty", "string"})

\* attemptPublish: throws on an unsigned event, else one broadcast round.
attemptPublish(p) ==
  IF ~p.sig
  THEN publishEvent_caught(p)
  ELSE [p EXCEPT !.pc = "round", !.rounds = @ + 1, !.started = p.elapsed,
                 !.settled = [r \in Relays |-> "pending"]]

\* publishEvent(event) up to its first await.
publishEvent_start(sig) ==
  attemptPublish(
    [pc |-> "off", sig |-> sig, form |-> IF sig THEN "string" ELSE "missing",
     retries |-> 0, rounds |-> 0,
     elapsed |-> 0, started |-> 0, acks |-> 0,
     settled |-> [r \in Relays |-> "none"], result |-> <<>>])

\* publishEvent(event) with an event whose sig has the given form; the test
\* of attemptPublish has the same outcome in every attempt of the call.
PE_Call(form) ==
  /\ pub.pc = "off"
  /\ pub' = [publishEvent_start(attemptPublish_signed(form)) EXCEPT
               !.form = form]
  /\ UNCHANGED <<shared_packages, packagesKeySet, my_deliveries, shared_export,
                 exportSet, nostr_pubkey, idCounter, ops, clock, lastCreated,
                 obs, fetch,
                 call, codec, relays, probe>>

\* A relay acknowledges the event before its timer fires.
PE_RelayAcks(r) ==
  /\ pub.pc = "round"
  /\ pub.settled[r] = "pending"
  /\ pub' = [pub EXCEPT !.settled[r] = "ok", !.acks = 1]
  /\ UNCHANGED <<shared_packages, packagesKeySet, my_deliveries, shared_export,
                 exportSet, nostr_pubkey, idCounter, ops, clock, lastCreated,
                 obs, fetch,
                 call, codec, relays, probe>>

\* A relay rejects the event.
PE_RelayFails(r) ==
  /\ pub.pc = "round"
  /\ pub.settled[r] = "pending"
  /\ pub' = [pub EXCEPT !.settled[r] = "failed"]
  /\ UNCHANGED <<shared_packages, packagesKeySet, my_deliveries, shared_export,
                 exportSet, nostr_pubkey, idCounter, ops, clock, lastCreated,
                 obs, fetch,
                 call, codec, relays, probe>>

\* The per-relay timers of this round fire: every relay still pending fails.
PE_RelayTimeout ==
  /\ pub.pc = "round"
  /\ pub.elapsed = pub.started + attemptPublish_relayTimeout
  /\ \E r \in Relays : pub.settled[r] = "pending"
  /\ pub' = [pub EXCEPT !.settled =
               [r \in Relays |-> IF pub.settled[r] = "pending"
                                 THEN "failed" ELSE pub.settled[r]]]
  /\ UNCHANGED <<shared_packages, packagesKeySet, my_deliveries, shared_export,
                 exportSet, nostr_pubkey, idCounter, ops, clock, lastCreated,
                 obs, fetch,
                 call, codec, relays, probe>>

\* Promise.all resolves: publishEvent counts the acknowledgements.
PE_RoundSettled ==
  /\ pub.pc = "round"
  /\ \A r \in Relays : pub.settled[r] # "pending"
  /\ LET results == attemptPublish_results(pub.settled, 1)
     IN  pub' = IF successCount(results) > 0
                THEN [pub EXCEPT !.pc = "returned", !.result = results]
                ELSE [pub EXCEPT !.pc = "waiting", !.retries = @ + 1,
                                 !.started = pub.elapsed]
  /\ UNCHANGED <<shared_packages, packagesKeySet, my_deliveries, shared_export,
                 exportSet, nostr_pubkey, idCounter, ops, clock, lastCreated,
                 obs, fetch,
                 call, codec, relays, probe>>

\* The retry delay is over: broadcast again, or give up after the last round.
PE_RetryDelayOver ==
  /\ pub.pc = "waiting"
  /\ pub.elapsed = pub.started + publishEvent_retryDelay
  /\ pub' = IF pub.retries < publishEvent_maxRetries
            THEN attemptPublish(pub)
            ELSE [pub EXCEPT !.pc = "returned", !.result = <<>>]
  /\ UNCHANGED <<shared_packages, packagesKeySet, my_deliveries, shared_export,
                 exportSet, nostr_pubkey, idCounter, ops, clock, lastCreated,
                 obs, fetch,
                 call, codec, relays, probe>>

PE_Advance ==
  /\ \/ pub.pc = "round"
        /\ pub.elapsed + PubQuantum <= pub.started + attemptPublish_relayTimeout
     \/ pub.pc = "waiting"
        /\ pub.elapsed + PubQuantum <= pub.started + publishEvent_retryDelay
  /\ pub' = [pub EXCEPT !.elapsed = @ + PubQuantum]
  /\ UNCHANGED <<shared_packages, packagesKeySet, my_deliveries, shared_export,
                 exportSet, nostr_pubkey, idCounter, ops, clock, lastCreated,
                 obs, fetch,
                 call, codec, relays, probe>>

\* The caller takes the result.
PE_Done ==
  /\ pub.pc = "returned"
  /\ pub' = PubOff
  /\ UNCHANGED <<shared_packages, packagesKeySet, my_deliveries, shared_export,
                 exportSet, nostr_pubkey, idCounter, ops, clock, lastCreated,
                 obs, fetch,
                 call, codec, relays, probe>>

NextPublish ==
  \/ \E form \in SigForms : PE_Call(form)
  \/ \E r \in Relays : PE_RelayAcks(r)
  \/ \E r \in Relays : PE_RelayFails(r)
  \/ PE_RelayTimeout
  \/ PE_RoundSettled
  \/ PE_RetryDelayOver
  \/ PE_Advance
  \/ PE_Done

\* Timers fire and settled promises run their continuations.
SpecPublish ==
  /\ Init
  /\ [][NextPublish]_vars
  /\ WF_vars(PE_RelayTimeout)
  /\ WF_vars(PE_RoundSettled)
  /\ WF_vars(PE_RetryDelayOver)
  /\ WF_vars(PE_Advance)

\* ------------------------------------------------------------- SpecWrite
\* One write call of nostr.ts in steps: the local step, the signer, the
\* publish (the steps of publishEvent above) and the return.  Beside the
\* three calls of src/lib/nostr.ts it has the createPackage of the later
\* revision, which signs and publishes before it saves.
MaxWrites == 2

store == <<shared_packages, packagesKeySet, my_deliveries, lastCreated,
           idCounter>>

WriteCall(op, id, dr, pc) ==
  [CallOff EXCEPT !.pc = pc, !.op = op, !.user = getUserPubkey, !.arg = id,
                  !.draft = dr]

\* A catch (nostrError) that throws the error on to the caller.
write_rethrown(c) == [c EXCEPT !.pc = "threw"]

\* A catch (nostrError) that returns without the local id.
write_caught_noId(c) == [c EXCEPT !.pc = "returned", !.ret = NoId]

\* catch (nostrError): the error is logged and the call returns normally;
\* createPackage returns the local id, the others return nothing.
write_caught(c) == [c EXCEPT !.pc = "returned", !.ret = c.localId]

\* The signer answered and the call goes on without awaiting publishEvent.
write_signed_noAwait(c, signed) ==
  IF signed = SignFailed
  THEN write_caught([c EXCEPT !.signFailed = TRUE])
  ELSE [c EXCEPT !.pc = "returned", !.eventId = signed,
                 !.ret = IF c.op \in {"createPackage", "createPackageSignFirst"}
                         THEN signed ELSE NoId]

\* await createSignedEvent(...) settles: a rejection goes to the catch,
\* a signed event is handed to publishEvent, which the call awaits.
write_signed(c, signed) ==
  IF signed = SignFailed
  THEN write_caught([c EXCEPT !.signFailed = TRUE])
  ELSE [c EXCEPT !.pc = "publishing", !.eventId = signed]

\* await publishEvent(event) settles (it never rejects): the call returns.
write_published(c, p) ==
  [c EXCEPT !.pc = "returned", !.rounds = p.rounds, !.acks = p.acks,
            !.waited = p.elapsed,
            !.ret = IF c.op \in {"createPackage", "createPackageSignFirst"}
                    THEN c.eventId ELSE NoId]

\* createPackage of the later revision: the list it writes after publishing.
createPackageSignFirst_list(dr, id) ==
  IF id \in SeqIds(getLocalPackages) THEN shared_packages
  ELSE Append(getLocalPackages,
              Package(id, dr, "available", getUserPubkey, clock, NoKey,
                      NoTime, NoTime))

\* createPackage(packageData), src/lib/nostr.ts: save, then sign.
W_createPackage(dr) ==
  /\ call.pc = "off"
  /\ ops < MaxWrites
  /\ ops' = ops + 1
  /\ saveLocalPackage(dr)
  /\ call' = [WriteCall("createPackage", NoId, dr, "signing")
                EXCEPT !.localId = idCounter + 1]
  /\ UNCHANGED <<shared_export, exportSet, nostr_pubkey, clock, obs, fetch,
                 pub, codec, relays, probe>>

\* createPackage(packageData), later revision: sign first, nothing saved yet.
W_createPackageSignFirst(dr) ==
  /\ call.pc = "off"
  /\ ops < MaxWrites
  /\ idCounter < MaxLocal
  /\ ops' = ops + 1
  /\ call' = WriteCall("createPackageSignFirst", NoId, dr, "signing")
  /\ UNCHANGED store
  /\ UNCHANGED <<shared_export, exportSet, nostr_pubkey, clock, obs, fetch,
                 pub, codec, relays, probe>>

\* pickupPackage(packageId): the local pickup, which may throw, then sign.
W_pickupPackage(id) ==
  /\ call.pc = "off"
  /\ ops < MaxWrites
  /\ ops' = ops + 1
  /\ pickupLocalPackage(id)
  /\ call' = IF pickupLocalPackage_found(id)
             THEN WriteCall("pickupPackage", id, EmptyDraft, "signing")
             ELSE WriteCall("pickupPackage", id, EmptyDraft, "threw")
  /\ UNCHANGED <<shared_export, exportSet, nostr_pubkey, clock, obs, fetch,
                 pub, codec, relays, probe>>

\* completeDelivery(packageId): the local completion, then listEvents.
W_completeDelivery(id) ==
  /\ call.pc = "off"
  /\ ops < MaxWrites
  /\ ops' = ops + 1
  /\ completeLocalDelivery(id)
  /\ call' = WriteCall("completeDelivery", id, EmptyDraft, "listing")
  /\ UNCHANGED <<shared_export, exportSet, nostr_pubkey, clock, obs, fetch,
                 pub, codec, relays, probe>>

\* completeDelivery: listEvents returned.  With no event the call returns;
\* JSON.parse of the first event's content may throw into the catch.
W_Listed(first) ==
  /\ call.pc = "listing"
  /\ call' = CASE first = "none" -> [call EXCEPT !.pc = "returned"]
               [] first = "braced" -> write_caught(call)
               [] OTHER -> [call EXCEPT !.pc = "signing"]
  /\ UNCHANGED store
  /\ UNCHANGED <<shared_export, exportSet, nostr_pubkey, clock, obs, fetch,
                 pub, codec, relays, probe, ops>>

\* createSignedEvent settles.  The later createPackage saves under a local
\* id when signing failed.
W_Signed(signed, sig) ==
  /\ call.pc = "signing"
  /\ IF signed = SignFailed /\ call.op = "createPackageSignFirst"
     THEN /\ saveLocalPackage(call.draft)
          /\ call' = write_signed([call EXCEPT !.localId = idCounter + 1],
                                  signed)
     ELSE /\ UNCHANGED store
          /\ call' = write_signed(call, signed)
  /\ pub' = IF signed = SignFailed THEN pub ELSE publishEvent_start(sig)
  /\ UNCHANGED <<shared_export, exportSet, nostr_pubkey, clock, obs, fetch,
                 codec, relays, probe, ops>>

\* publishEvent has returned: the call returns.  The later createPackage
\* saves the listing under the event id now.
W_Published ==
  /\ call.pc = "publishing"
  /\ pub.pc = "returned"
  /\ call' = write_published(call, pub)
  /\ pub' = PubOff
  /\ IF call.op = "createPackageSignFirst"
     THEN /\ shared_packages' =
               createPackageSignFirst_list(call.draft, call.eventId)
          /\ packagesKeySet' = (packagesKeySet
                                \/ call.eventId \notin SeqIds(getLocalPackages))
          /\ lastCreated' = [id |-> call.eventId, draft |-> call.draft]
          /\ UNCHANGED <<my_deliveries, idCounter>>
     ELSE UNCHANGED store
  /\ UNCHANGED <<shared_export, exportSet, nostr_pubkey, clock, obs, fetch,
                 codec, relays, probe, ops>>

\* The event a returned createPackage has left on the relays: the signed
\* event with the listing as its content, when a relay acknowledged it.
publishedListing(c) ==
  IF c.op \in {"createPackage", "createPackageSignFirst"} /\ c.acks > 0
  THEN <<Event(c.eventId, c.user, clock, KIND_PACKAGE,
               PackageContent(c.draft, "available"))>>
  ELSE <<>>

\* getPackages() called once createPackage has returned; listEvents returns
\* what the call published.
W_getPackages ==
  /\ obs.op = "idle"
  /\ call.pc = "returned"
  /\ call.op \in {"createPackage", "createPackageSignFirst"}
  /\ LET events == publishedListing(call)
     IN  obs' = [Called("getPackages", NoId) EXCEPT
                   !.draft = call.draft, !.localId = call.localId,
                   !.ret = call.ret, !.published = (call.acks > 0),
                   !.events = events, !.list = getPackages(events),
                   !.created = lastCreated]
  /\ UNCHANGED store
  /\ UNCHANGED <<shared_export, exportSet, nostr_pubkey, clock, call, fetch,
                 pub, codec, relays, probe, ops>>

\* The caller takes the result or the error.
W_Done ==
  /\ call.pc \in {"returned", "threw"}
  /\ call' = CallOff
  /\ obs' = Idle
  /\ UNCHANGED store
  /\ UNCHANGED <<shared_export, exportSet, nostr_pubkey, clock, fetch,
                 pub, codec, relays, probe, ops>>

NextWrite ==
  \/ \E dr \in Drafts : W_createPackage(dr)
  \/ \E dr \in Drafts : W_createPackageSignFirst(dr)
  \/ \E id \in Ids : W_pickupPackage(id)
  \/ \E id \in Ids : W_completeDelivery(id)
  \/ \E first \in {"none", "braced", "object"} : W_Listed(first)
  \/ \E signed \in SignOutcomes, sig \in BOOLEAN : W_Signed(signed, sig)
  \/ W_Published
  \/ W_getPackages
  \/ W_Done
  \/ \E r \in Relays : PE_RelayAcks(r)
  \/ \E r \in Relays : PE_RelayFails(r)
  \/ PE_RelayTimeout
  \/ PE_RoundSettled
  \/ PE_RetryDelayOver
  \/ PE_Advance

\* Timers fire and settled promises run their continuations; the signer
\* and the relays owe no answer.
SpecWrite ==
  /\ Init
  /\ [][NextWrite]_vars
  /\ WF_vars(PE_RelayTimeout)
  /\ WF_vars(PE_RoundSettled)
  /\ WF_vars(PE_RetryDelayOver)
  /\ WF_vars(PE_Advance)
  /\ WF_vars(W_Published)

\* ---------------------------------------------------------- SpecComplete
\* completeDelivery of the latest revision (src/unnamed/part_010:2192-2303)
\* in steps, on a store that createPackage and pickupPackage have filled
\* (one listing, no signer at that time) and for a delivery the store holds:
\* the local completion, then up to three attempts of listEvents,
\* createSignedEvent and publishEvent, which has its own rounds.
completeDelivery_maxAttempts == 3

\* attempt++ and the test of the for loop.
completeDelivery_nextAttempt(c) ==
  IF c.attempt + 1 < completeDelivery_maxAttempts
  THEN [c EXCEPT !.pc = "listing", !.attempt = @ + 1]
  ELSE [c EXCEPT !.pc = "returned", !.attempt = @ + 1]

\* The calls that fill the store, while no completeDelivery is under way.
CD_createPackage ==
  /\ call.pc = "off"
  /\ createPackage(Draft("sofa", "north", "south", "10000", ""), SignFailed)

CD_pickupPackage(id) ==
  /\ call.pc = "off"
  /\ pickupPackage(id, SignFailed)

\* completeDelivery(packageId): the local completion, then the first
\* listEvents.
CD_Call(id) ==
  /\ obs.op = "idle"
  /\ call.pc = "off"
  /\ id \in SeqIds(my_deliveries)
  /\ ops < MaxOps
  /\ ops' = ops + 1
  /\ completeLocalDelivery(id)
  /\ call' = WriteCall("completeDeliveryRetrying", id, EmptyDraft, "listing")
  /\ UNCHANGED <<shared_export, exportSet, nostr_pubkey, clock, obs, fetch,
                 pub, codec, relays, probe>>

\* listEvents returned (it never throws): with or without a delivery event
\* the content is built and handed to createSignedEvent.
CD_Listed ==
  /\ call.op = "completeDeliveryRetrying"
  /\ call.pc = "listing"
  /\ call' = [call EXCEPT !.pc = "signing"]
  /\ UNCHANGED store
  /\ UNCHANGED <<shared_export, exportSet, nostr_pubkey, clock, obs, fetch,
                 pub, codec, relays, probe, ops>>

\* createSignedEvent settles: a rejection goes to the catch of this attempt
\* and the loop goes on at once; a signed event is handed to publishEvent.
CD_Signed(signed, sig) ==
  /\ call.op = "completeDeliveryRetrying"
  /\ call.pc = "signing"
  /\ IF signed = SignFailed
     THEN /\ call' = completeDelivery_nextAttempt(
                        [call EXCEPT !.signFailed = TRUE])
          /\ UNCHANGED pub
     ELSE /\ call' = [call EXCEPT !.pc = "publishing", !.eventId = signed]
          /\ pub' = publishEvent_start(sig)
  /\ UNCHANGED store
  /\ UNCHANGED <<shared_export, exportSet, nostr_pubkey, clock, obs, fetch,
                 codec, relays, probe, ops>>

\* A loop that goes on unless every relay acknowledged.
completeDelivery_afterPublish_allAcked(results) ==
  IF Len(results) > 0 /\ successCount(results) = Len(results)
  THEN "returned" ELSE "waiting"

\* if (successCount > 0) break, else the wait before the next attempt.
completeDelivery_afterPublish(results) ==
  IF successCount(results) > 0 THEN "returned" ELSE "waiting"

\* publishEvent returned: break when a relay acknowledged, else wait a
\* second.  rounds adds up the broadcast rounds of every publishEvent.
CD_Published ==
  /\ call.op = "completeDeliveryRetrying"
  /\ call.pc = "publishing"
  /\ pub.pc = "returned"
  /\ call' = [call EXCEPT
                !.pc = completeDelivery_afterPublish(pub.result),
                !.rounds = @ + pub.rounds,
                !.acks = successCount(pub.result)]
  /\ pub' = PubOff
  /\ UNCHANGED store
  /\ UNCHANGED <<shared_export, exportSet, nostr_pubkey, clock, obs, fetch,
                 codec, relays, probe, ops>>

\* The second of waiting is over: the next attempt, or the end of the loop.
CD_RetryDelayOver ==
  /\ call.op = "completeDeliveryRetrying"
  /\ call.pc = "waiting"
  /\ call' = completeDelivery_nextAttempt(call)
  /\ UNCHANGED store
  /\ UNCHANGED <<shared_export, exportSet, nostr_pubkey, clock, obs, fetch,
                 pub, codec, relays, probe, ops>>

NextComplete ==
  \/ Return
  \/ CD_createPackage
  \/ \E id \in Ids : CD_pickupPackage(id)
  \/ \E id \in Ids : CD_Call(id)
  \/ CD_Listed
  \/ \E signed \in SignOutcomes, sig \in BOOLEAN : CD_Signed(signed, sig)
  \/ CD_Published
  \/ CD_RetryDelayOver
  \/ W_Done
  \/ \E r \in Relays : PE_RelayAcks(r)
  \/ \E r \in Relays : PE_RelayFails(r)
  \/ PE_RelayTimeout
  \/ PE_RoundSettled
  \/ PE_RetryDelayOver
  \/ PE_Advance

\* Timers fire and settled promises run their continuations; the relay
\* query and the signer settle.
SpecComplete ==
  /\ Init
  /\ [][NextComplete]_vars
  /\ WF_vars(PE_RelayTimeout)
  /\ WF_vars(PE_RoundSettled)
  /\ WF_vars(PE_RetryDelayOver)
  /\ WF_vars(PE_Advance)
  /\ WF_vars(CD_Listed)
  /\ WF_vars(\E signed \in SignOutcomes, sig \in BOOLEAN : CD_Signed(signed, sig))
  /\ WF_vars(CD_Published)
  /\ WF_vars(CD_RetryDelayOver)

\* ------------------------------------------------------------- SpecCodec
\* parsePackageFromEvent applied to any event, and to the event
\* createPackage builds from what the post-package form submits.
RawForms == {"undefined", "nonstring", "empty", "blank", "text", "braced",
             "scalar", "jsonnull"}

\* JSON objects with any of the fields missing.
CodecObjects ==
  { [EmptyObj EXCEPT !.title = t, !.pickupLocation = p, !.destination = d,
                     !.cost = c, !.description = descr, !.status = st] :
      t \in {"", "sofa"}, p \in {"", "north"}, d \in {"", "south"},
      c \in {"", "0"}, descr \in {"", "fragile"}, st \in {"", "in_transit"} }

CodecContents ==
  { Raw(f) : f \in RawForms } \cup { ObjectContent(o) : o \in CodecObjects }

CodecEvents ==
  { Event(id, RelayAuthor, 1, KIND_PACKAGE, c) :
      id \in RelayIds, c \in CodecContents } \cup {NullEvent}

\* What the form can submit: required fields filled in, description any string.
ValidDrafts ==
  { Draft(t, "north", "south", c, descr) :
      t \in {"sofa", "book"}, c \in {"0", "250"}, descr \in {"", "fragile"} }

Decode(event) ==
  /\ codec' = [op |-> "decode", event |-> event, draft |-> EmptyDraft,
               result |-> parsePackageFromEvent(event)]
  /\ UNCHANGED <<shared_packages, packagesKeySet, my_deliveries, shared_export,
                 exportSet, nostr_pubkey, idCounter, ops, clock, lastCreated,
                 obs, fetch, pub, call, relays, probe>>

\* The event createPackage has signed, decoded again.
EncodeDecode(dr, id) ==
  /\ LET event == Event(id, getUserPubkey, clock, KIND_PACKAGE,
                        PackageContent(dr, "available"))
     IN  codec' = [op |-> "roundtrip", event |-> event, draft |-> dr,
                   result |-> parsePackageFromEvent(event)]
  /\ UNCHANGED <<shared_packages, packagesKeySet, my_deliveries, shared_export,
                 exportSet, nostr_pubkey, idCounter, ops, clock, lastCreated,
                 obs, fetch, pub, call, relays, probe>>

NextCodec ==
  \/ \E event \in CodecEvents : Decode(event)
  \/ \E dr \in ValidDrafts, id \in EventIds : EncodeDecode(dr, id)

SpecCodec == Init /\ [][NextCodec]_vars

\* --------------------------------------------------------- SpecReconcile
\* The stored statuses under the store's writing functions and the two
\* reconciliations of src/unnamed/part_010, which rewrite the stored status
\* of a package from the delivery events the relays return.

\* A confirmation that marks every delivery, whatever its id.
confirmLocalDelivery_deliveries_everyRecord(id) ==
  LET upd(p) == IF p.id = id \/ p.id # id
                THEN [p EXCEPT !.status = "delivered", !.delivery_time = clock]
                ELSE p
  IN  SeqMap(upd, my_deliveries)

\* confirmLocalDelivery: the deliveries list it writes back.
confirmLocalDelivery_deliveries(id) ==
  LET upd(p) == IF p.id = id
                THEN [p EXCEPT !.status = "delivered", !.delivery_time = clock]
                ELSE p
  IN  SeqMap(upd, my_deliveries)

\* Delivery events about the first local package: its pickup (created at 1),
\* its completion a second later, a completion within the second of the
\* pickup, and an event whose content is no JSON.
StatusEvent(n, st, created, deliv) ==
  Event(MaxLocal + n, RelayAuthor, created, KIND_DELIVERY,
        DeliveryContent(1, st, RelayAuthor, 1, deliv))

StatusEvents ==
  { StatusEvent(1, "in_transit", 1, NoTime),
    StatusEvent(2, "delivered", 2, 2),
    StatusEvent(3, "delivered", 1, 1),
    Event(MaxLocal + 4, RelayAuthor, 1, KIND_DELIVERY, Raw("braced")) }

\* The two stored lists, as read from localStorage.
StoredLists == [packages |-> shared_packages, deliveries |-> my_deliveries]

\* The ids both reconciliations collect from the store before they ask.
uniquePackageIds == SeqIds(getLocalPackages) \cup SeqIds(my_deliveries)

\* updateLocalPackageStatus on one stored list: every record with the id
\* takes the status, and the fields of data that are truthy.
updateLocalPackageStatus_list(list, packageId, status, data) ==
  LET upd(p) ==
        IF p.id = packageId
        THEN [p EXCEPT
                !.status = status,
                !.courier_pubkey =
                  IF data.courier_pubkey # NoKey THEN data.courier_pubkey ELSE @,
                !.pickup_time =
                  IF data.pickup_time # NoTime THEN data.pickup_time ELSE @,
                !.delivery_time =
                  IF data.delivery_time # NoTime THEN data.delivery_time ELSE @]
        ELSE p
  IN  SeqMap(upd, list)

updateLocalPackageStatus(lists, packageId, status, data) ==
  [packages |->
     updateLocalPackageStatus_list(lists.packages, packageId, status, data),
   deliveries |->
     updateLocalPackageStatus_list(lists.deliveries, packageId, status, data)]

\* The loop of verifyPackageStatuses over the events of one batch, in the
\* order listEvents returned them; an event whose content does not parse, or
\* lacks package_id or status, is passed over.
RECURSIVE verifyPackageStatuses_loop(_, _)
verifyPackageStatuses_loop(events, lists) ==
  IF events = <<>> THEN lists
  ELSE LET content == Head(events).content
           applies == /\ content.form = "object"
                      /\ content.obj.package_id # NoId
                      /\ content.obj.status # ""
       IN  verifyPackageStatuses_loop(
             Tail(events),
             IF applies
             THEN updateLocalPackageStatus(lists, content.obj.package_id,
                                           content.obj.status, content.obj)
             ELSE lists)

\* verifyPackageStatuses: what the two lists hold afterwards; with no id in
\* the store there is no batch and no query.
verifyPackageStatuses_lists(events) ==
  IF uniquePackageIds = {} THEN StoredLists
  ELSE verifyPackageStatuses_loop(events, StoredLists)

\* safeParseJSON yields the object, or null for anything else.
safeParseJSON_parsed(content) == content.form = "object"

\* The latestStatusMap of forceStatusRefresh: per package id the entry of the
\* first event among those with the greatest created_at.
RECURSIVE forceStatusRefresh_latest(_, _)
forceStatusRefresh_latest(events, map) ==
  IF events = <<>> THEN map
  ELSE LET event == Head(events)
           content == event.content.obj
           pid == content.package_id
           entry == [status |-> content.status,
                     courier_pubkey |-> content.courier_pubkey,
                     pickup_time |-> content.pickup_time,
                     delivery_time |-> content.delivery_time,
                     created_at |-> event.created_at]
       IN  forceStatusRefresh_latest(
             Tail(events),
             IF ~safeParseJSON_parsed(event.content) \/ pid = NoId THEN map
             ELSE IF pid \notin DOMAIN map \/ map[pid].created_at < event.created_at
             THEN [x \in DOMAIN map \cup {pid} |->
                     IF x = pid THEN entry ELSE map[x]]
             ELSE map)

\* forceStatusRefresh on one stored list: a record whose status differs from
\* the latest one takes it, and the latest fields that are truthy.
forceStatusRefresh_list(list, map) ==
  LET upd(p) ==
        IF p.id \in DOMAIN map /\ p.status # map[p.id].status
        THEN [p EXCEPT
                !.status = map[p.id].status,
                !.courier_pubkey =
                  IF map[p.id].courier_pubkey # NoKey
                  THEN map[p.id].courier_pubkey ELSE @,
                !.pickup_time =
                  IF map[p.id].pickup_time # NoTime
                  THEN map[p.id].pickup_time ELSE @,
                !.delivery_time =
                  IF map[p.id].delivery_time # NoTime
                  THEN map[p.id].delivery_time ELSE @]
        ELSE p
  IN  SeqMap(upd, list)

forceStatusRefresh_lists(events) ==
  LET latestStatusMap == forceStatusRefresh_latest(events, [x \in {} |-> 0])
  IN  [packages |-> forceStatusRefresh_list(shared_packages, latestStatusMap),
       deliveries |-> forceStatusRefresh_list(my_deliveries, latestStatusMap)]

\* confirmLocalDelivery(packageId), called by the recipient's page.  It adds
\* no record, so it needs no share of the bound on writing calls.
confirmLocalDelivery(id) ==
  /\ obs.op = "idle"
  /\ my_deliveries' = confirmLocalDelivery_deliveries(id)
  /\ lastCreated' = NoListing
  /\ obs' = Called("confirmLocalDelivery", id)
  /\ UNCHANGED <<shared_packages, packagesKeySet, shared_export, exportSet,
                 nostr_pubkey, idCounter, ops, clock, fetch, pub, call, codec,
                 relays, probe>>

\* verifyPackageStatuses(): events is what listEvents returned for the batch.
verifyPackageStatuses(events) ==
  /\ obs.op = "idle"
  /\ LET lists == verifyPackageStatuses_lists(events)
     IN  /\ shared_packages' = lists.packages
         /\ my_deliveries' = lists.deliveries
         /\ lastCreated' = IF lists = StoredLists THEN lastCreated ELSE NoListing
  /\ obs' = [Called("verifyPackageStatuses", NoId) EXCEPT
               !.events = IF uniquePackageIds = {} THEN <<>> ELSE events]
  /\ UNCHANGED <<packagesKeySet, shared_export, exportSet, nostr_pubkey,
                 idCounter, ops, clock, fetch, pub, call, codec, relays, probe>>

\* forceStatusRefresh(): events is what listEvents returned.
forceStatusRefresh(events) ==
  /\ obs.op = "idle"
  /\ LET lists == forceStatusRefresh_lists(events)
     IN  /\ shared_packages' = lists.packages
         /\ my_deliveries' = lists.deliveries
         /\ lastCreated' = IF lists = StoredLists THEN lastCreated ELSE NoListing
  /\ obs' = [Called("forceStatusRefresh", NoId) EXCEPT !.events = events]
  /\ UNCHANGED <<packagesKeySet, shared_export, exportSet, nostr_pubkey,
                 idCounter, ops, clock, fetch, pub, call, codec, relays, probe>>

NextReconcile ==
  \/ Return
  \/ \E dr \in Drafts, signed \in SignOutcomes : createPackage(dr, signed)
  \/ \E id \in Ids, signed \in SignOutcomes : pickupPackage(id, signed)
  \/ \E id \in Ids, f \in BOOLEAN, signed \in SignOutcomes :
       completeDelivery(id, f, signed)
  \/ \E id \in Ids : confirmLocalDelivery(id)
  \/ \E events \in SeqsUpTo(StatusEvents, MaxFetched) :
       verifyPackageStatuses(events)
  \/ \E events \in SeqsUpTo(StatusEvents, MaxFetched) :
       forceStatusRefresh(events)

SpecReconcile == Init /\ [][NextReconcile]_vars

\* ------------------------------------------------------------ SpecRelays
\* The relay list: setRelays and getRelays of nostr-service.ts, and the save
\* button of the relay configuration (src/unnamed/part_006).
MaxAddresses == 3    \* relay addresses a user may enter

RelayAddresses == 1..MaxAddresses
RelayLists == SeqsUpTo(RelayAddresses, MaxAddresses)

\* The built-in list, by its first three addresses.
RELAYS == <<1, 2, 3>>
minRelays == 3

\* A setRelays that writes whatever it is given.
setRelays_asGiven(rs) == rs

\* setRelays: the list it writes, validRelays.
setRelays_validRelays(rs) == IF Len(rs) >= minRelays THEN rs ELSE RELAYS

\* A getRelays that never reads the stored key.
getRelays_defaultOnly == RELAYS

\* A getRelays that returns every stored array, the way the first revision
\* returned every non-empty one.
getRelays_anyArray ==
  IF relays.present /\ relays.form = "array" THEN relays.list ELSE RELAYS

\* getRelays: the stored list when it parses to an array of at least three
\* entries, the built-in list otherwise (key absent, JSON.parse throwing,
\* no array, too short).
getRelays ==
  IF relays.present /\ relays.form = "array" /\ Len(relays.list) >= minRelays
  THEN relays.list
  ELSE RELAYS

\* A call on the relay list: its argument, the stored key before it, and
\* whether it ended in an error.
RelayCall(op, rs) ==
  [op |-> op, user |-> getUserPubkey, relays |-> rs, before |-> relays,
   threw |-> FALSE]

setRelays(rs) ==
  /\ obs.op = "idle"
  /\ relays' = StoredAs(setRelays_validRelays(rs))
  /\ obs' = RelayCall("setRelays", rs)
  /\ UNCHANGED <<shared_packages, packagesKeySet, my_deliveries, shared_export,
                 exportSet, nostr_pubkey, idCounter, ops, clock, lastCreated,
                 fetch, pub, call, codec, probe>>

\* RelayConfig.handleSave with the list rs on screen: an empty list is
\* refused with an error toast, any other is handed to setRelays.
handleSave(rs) ==
  /\ obs.op = "idle"
  /\ IF Len(rs) = 0
     THEN /\ obs' = [RelayCall("handleSave", rs) EXCEPT !.threw = TRUE]
          /\ UNCHANGED relays
     ELSE /\ relays' = StoredAs(setRelays_validRelays(rs))
          /\ obs' = RelayCall("handleSave", rs)
  /\ UNCHANGED <<shared_packages, packagesKeySet, my_deliveries, shared_export,
                 exportSet, nostr_pubkey, idCounter, ops, clock, lastCreated,
                 fetch, pub, call, codec, probe>>

\* What the 'relays' key can hold when the page loads: nothing, a list of
\* any length written by the first revision's setRelays
\* (nostr-service.ts:30-32), which stores its argument as given, or a string
\* that JSON.parse rejects or turns into something that is no array.
StoredValues ==
  {NotStored} \cup { StoredAs(rs) : rs \in RelayLists }
  \cup { StoredRaw(f) : f \in {"text", "object"} }

\* The page is loaded with the key holding v.
PageLoad(v) ==
  /\ obs.op = "idle"
  /\ relays' = v
  /\ UNCHANGED <<shared_packages, packagesKeySet, my_deliveries, shared_export,
                 exportSet, nostr_pubkey, idCounter, ops, clock, lastCreated,
                 obs, fetch, pub, call, codec, probe>>

NextRelays ==
  \/ Return
  \/ \E v \in StoredValues : PageLoad(v)
  \/ \E rs \in RelayLists : setRelays(rs)
  \/ \E rs \in RelayLists : handleSave(rs)

SpecRelays == Init /\ [][NextRelays]_vars

\* ------------------------------------------------------------- SpecProbe
\* One relay probe, step by step: checkRelay of nostr-service.ts and the
\* probe inside RelayConfig.testRelayConnections (src/unnamed/part_006).
\* The socket is "connecting" from its construction, "open" never for long
\* (both onopen handlers close it at once), and "closed" once close() was
\* called on it or the browser failed the connection (the error event).
checkRelay_timeoutMs == 5000
testRelayConnections_timeout == 5000
\* Time advances by half the default timeout, never past an armed timer.
ProbeQuantum == checkRelay_timeoutMs \div 2

Browsers == {"firefox", "chrome", "other"}

\* checkRelay: adjustedTimeout.
adjustedTimeout(browser) ==
  CASE browser = "firefox" -> checkRelay_timeoutMs * 2
    [] browser = "chrome" -> (checkRelay_timeoutMs * 3) \div 2
    [] OTHER -> checkRelay_timeoutMs

ProbeCall(fn, relay, timeout, constructed) ==
  [pc |-> IF constructed THEN "pending" ELSE "resolved",
   fn |-> fn, relay |-> relay, timeout |-> timeout,
   socket |-> IF constructed THEN "connecting" ELSE "none",
   timer |-> IF constructed THEN "armed" ELSE "none",
   result |-> IF constructed THEN "pending" ELSE "false",
   by |-> IF constructed THEN "none" ELSE "catch",
   elapsed |-> 0]

\* resolve / reject: only the first one settles the promise.
probe_settle(p, result, by) ==
  IF p.pc = "pending"
  THEN [p EXCEPT !.pc = "resolved", !.result = result, !.by = by]
  ELSE p

\* The onopen handlers.
checkRelay_onopen(p) ==
  probe_settle([p EXCEPT !.timer = "cleared", !.socket = "closed"], "true", "open")
testRelayConnections_onopen(p) ==
  probe_settle([p EXCEPT !.socket = "closed"], "true", "open")

\* The onerror handlers; the browser has failed the connection.
checkRelay_onerror(p) ==
  probe_settle([p EXCEPT !.timer = "cleared", !.socket = "closed"], "false", "error")
testRelayConnections_onerror(p) ==
  probe_settle([p EXCEPT !.socket = "closed"], "false", "error")

\* The timeout callbacks.
checkRelay_ontimeout(p) ==
  probe_settle([p EXCEPT !.timer = "fired", !.socket = "closed"], "false", "timeout")
testRelayConnections_ontimeout(p) ==
  probe_settle([p EXCEPT !.timer = "fired"], "false", "timeout")

ProbeFrame ==
  UNCHANGED <<shared_packages, packagesKeySet, my_deliveries, shared_export,
              exportSet, nostr_pubkey, idCounter, ops, clock, lastCreated, obs,
              fetch, pub, call, codec, relays>>

\* checkRelay(relay): constructed is whether new WebSocket(relay) returned.
P_checkRelay(relay, browser, constructed) ==
  /\ probe.pc = "off"
  /\ probe' = ProbeCall("checkRelay", relay, adjustedTimeout(browser), constructed)
  /\ ProbeFrame

\* One turn of the loop of testRelayConnections.
P_testRelayConnections(relay, constructed) ==
  /\ probe.pc = "off"
  /\ probe' = ProbeCall("testRelayConnections", relay,
                        testRelayConnections_timeout, constructed)
  /\ ProbeFrame

\* The connection is established.
P_Open ==
  /\ probe.pc \in {"pending", "resolved"}
  /\ probe.socket = "connecting"
  /\ probe' = IF probe.fn = "checkRelay" THEN checkRelay_onopen(probe)
              ELSE testRelayConnections_onopen(probe)
  /\ ProbeFrame

\* The connection fails.
P_Error ==
  /\ probe.pc \in {"pending", "resolved"}
  /\ probe.socket = "connecting"
  /\ probe' = IF probe.fn = "checkRelay" THEN checkRelay_onerror(probe)
              ELSE testRelayConnections_onerror(probe)
  /\ ProbeFrame

\* The timer fires.
P_Timeout ==
  /\ probe.pc \in {"pending", "resolved"}
  /\ probe.timer = "armed"
  /\ probe.elapsed >= probe.timeout
  /\ probe' = IF probe.fn = "checkRelay" THEN checkRelay_ontimeout(probe)
              ELSE testRelayConnections_ontimeout(probe)
  /\ ProbeFrame

\* Time passes while the timer is armed.
P_Advance ==
  /\ probe.pc \in {"pending", "resolved"}
  /\ probe.timer = "armed"
  /\ probe.elapsed < probe.timeout
  /\ probe' = [probe EXCEPT !.elapsed = @ + ProbeQuantum]
  /\ ProbeFrame

\* The caller has taken the result and nothing is armed any more.
P_Done ==
  /\ probe.pc = "resolved"
  /\ probe.timer # "armed"
  /\ probe' = ProbeOff
  /\ ProbeFrame

NextProbe ==
  \/ \E relay \in Relays, browser \in Browsers, constructed \in BOOLEAN :
       P_checkRelay(relay, browser, constructed)
  \/ \E relay \in Relays, constructed \in BOOLEAN :
       P_testRelayConnections(relay, constructed)
  \/ P_Open
  \/ P_Error
  \/ P_Timeout
  \/ P_Advance
  \/ P_Done

SpecProbe == Init /\ [][NextProbe]_vars

\* ------------------------------------------------------------------ claims
Stored(list, p) == \E i \in 1..Len(list) : list[i] = p

\* The first event of the list that decodes and carries the id.
FirstDecodable(events, id) ==
  LET ok == SelectSeq(events, LAMBDA e : e.id = id
                                         /\ parsePackageFromEvent(e) # NullPackage)
  IN  IF ok = <<>> THEN NullPackage ELSE parsePackageFromEvent(Head(ok))

\* The most recently created event of the list that decodes and carries the id.
LatestDecodable(events, id) ==
  LET ok == SelectSeq(events, LAMBDA e : e.id = id
                                         /\ parsePackageFromEvent(e) # NullPackage)
      i == CHOOSE i \in 1..Len(ok) :
             \A j \in 1..Len(ok) : ok[j].created_at <= ok[i].created_at
  IN  IF ok = <<>> THEN NullPackage ELSE parsePackageFromEvent(ok[i])

DecodableIds(events) ==
  { events[i].id : i \in { j \in 1..Len(events) :
                            parsePackageFromEvent(events[j]) # NullPackage } }

\* C1: once createPackage has returned an id, getLocalPackageById of that id
\* yields a package with that id and the submitted title, pickup location,
\* destination and cost, whether or not signing succeeded.
C1_ReturnedIdIsStored ==
  obs.op = "createPackage" =>
    LET p == getLocalPackageById(obs.ret)
    IN  /\ p.id = obs.ret
        /\ p.title = obs.draft.title
        /\ p.pickupLocation = obs.draft.pickupLocation
        /\ p.destination = obs.draft.destination
        /\ p.cost = obs.draft.cost

\* C3: a getMyDeliveries call lists every package the calling user has
\* picked up, whatever the relays returned.
C3_DeliveriesIncludePickedUp ==
  obs.op = "getMyDeliveries" =>
    \A i \in 1..Len(my_deliveries) :
      my_deliveries[i].courier_pubkey = obs.user =>
        my_deliveries[i].id \in SeqIds(obs.list)

\* C4: getPackages returns every local package unchanged and, for every id
\* that only decodable remote events carry, a package decoded from one of
\* them: a local package no remote event references and a remote package
\* with another id are both in the result.
C4_MergeKeepsLocalAndRemote ==
  obs.op = "getPackages" =>
    /\ \A i \in 1..Len(getLocalPackages) : Stored(obs.list, getLocalPackages[i])
    /\ \A id \in DecodableIds(obs.events) \ SeqIds(getLocalPackages) :
         \E i \in 1..Len(obs.events) :
           /\ obs.events[i].id = id
           /\ parsePackageFromEvent(obs.events[i]) # NullPackage
           /\ Stored(obs.list, parsePackageFromEvent(obs.events[i]))

C4_Witness ==
  /\ obs.op = "getPackages"
  /\ \E l \in SeqIds(getLocalPackages) :
       /\ \A i \in 1..Len(obs.events) : obs.events[i].id # l
       /\ l \in SeqIds(obs.list)
  /\ \E r \in DecodableIds(obs.events) \ SeqIds(getLocalPackages) :
       r \in SeqIds(obs.list)

\* C5 as claimed: for an id that a local package and a decodable remote event
\* share, getPackages returns the values of the most recently created remote
\* event.
C5_RemoteWins ==
  obs.op = "getPackages" =>
    \A id \in DecodableIds(obs.events) :
      FindById(obs.list, id) = LatestDecodable(obs.events, id)

\* C5 as the code has it: for an id a local package has, getPackages returns
\* the local package; for any other id it returns the first decodable event
\* of the list with that id, whatever its creation time.
C5_LocalWinsThenFirstRemote ==
  obs.op = "getPackages" =>
    \A id \in SeqIds(obs.list) :
      FindById(obs.list, id) =
        IF id \in SeqIds(getLocalPackages)
        THEN FindById(getLocalPackages, id)
        ELSE FirstDecodable(obs.events, id)

C5_Witness ==
  /\ obs.op = "getPackages"
  /\ \E id \in DecodableIds(obs.events) \cap SeqIds(getLocalPackages) :
       /\ FindById(obs.list, id) = FindById(getLocalPackages, id)
       /\ FindById(obs.list, id) # LatestDecodable(obs.events, id)

\* C9: the getPackages call that follows a createPackage call lists the
\* created listing, with the submitted fields and status available, whatever
\* the relays returned.
C9_CreatedIsListedAvailable ==
  (obs.op = "getPackages" /\ obs.created # NoListing) =>
    \E i \in 1..Len(obs.list) :
      /\ obs.list[i].id = obs.created.id
      /\ DraftOf(obs.list[i]) = obs.created.draft
      /\ obs.list[i].status = "available"

C9_Witness ==
  /\ obs.op = "getPackages"
  /\ obs.created # NoListing
  /\ obs.created.id \in SeqIds(obs.events)
  /\ Len(obs.list) > 1

\* C10: after completeDelivery(id) has returned, every stored delivery record
\* of id has status delivered and a delivery time, whether or not the update
\* was published.
C10_CompletedIsDelivered ==
  obs.op = "completeDelivery" =>
    \A i \in 1..Len(my_deliveries) :
      my_deliveries[i].id = obs.arg =>
        /\ my_deliveries[i].status = "delivered"
        /\ my_deliveries[i].delivery_time # NoTime

C10_Witness ==
  /\ obs.op = "completeDelivery"
  /\ ~obs.published
  /\ obs.arg \in SeqIds(my_deliveries)

\* C8: a package somebody has picked up is in the deliveries with status
\* in_transit or delivered under its courier, and the available-package
\* listing of no other user returns it.
C8_PickedUpIsHiddenFromOthers ==
  \A i \in 1..Len(my_deliveries) :
    /\ my_deliveries[i].status \in {"in_transit", "delivered"}
    /\ my_deliveries[i].courier_pubkey \in Users
    /\ \A u \in Users \ {my_deliveries[i].courier_pubkey} :
         my_deliveries[i].id \notin SeqIds(getLocalPackagesOf(u))

listEvents_bound(t) == 3 * t + 3 * 500

C7_NoTwoEventsShareAnId ==
  fetch.pc = "returned" =>
    \A i, j \in 1..Len(fetch.result) :
      fetch.result[i].id = fetch.result[j].id => i = j

\* C6: one publishEvent call never starts a 4th broadcast round, and when no
\* relay ever acknowledges it still returns, with the empty result.
C6_AtMostThreeRounds ==
  /\ [](pub.pc # "off" => pub.rounds <= 3)
  /\ [](pub.pc = "returned" /\ pub.acks = 0 => pub.result = <<>>)
  /\ (pub.pc \in {"round", "waiting"} ~> pub.pc = "returned")

C6_Witness ==
  /\ pub.pc = "returned"
  /\ pub.sig
  /\ pub.acks = 0
  /\ pub.rounds = 3
  /\ pub.result = <<>>

\* C11: a write call throws only when its local step failed; once the
\* remote leg has begun (signer asked, relays asked) the call cannot end in
\* an error, and a call awaiting its publish does return.
C11_RemoteLegNeverFailsTheWrite ==
  /\ [](call.pc = "threw" =>
          /\ call.op = "pickupPackage"
          /\ ~call.signFailed
          /\ call.eventId = NoId
          /\ call.rounds = 0)
  /\ (call.pc = "publishing" ~> call.pc = "returned")

C11_Witness ==
  /\ call.pc = "returned"
  /\ call.op = "pickupPackage"
  /\ call.eventId # NoId
  /\ call.rounds = 3
  /\ call.acks = 0

LocalWriteInEffect ==
  CASE call.op = "pickupPackage" ->
         \E i \in 1..Len(my_deliveries) :
           /\ my_deliveries[i].id = call.arg
           /\ my_deliveries[i].courier_pubkey = call.user
           /\ my_deliveries[i].status = "in_transit"
    [] call.op = "completeDelivery" ->
         \A i \in 1..Len(my_deliveries) :
           my_deliveries[i].id = call.arg =>
             my_deliveries[i].status = "delivered"
    [] OTHER ->
         \E i \in 1..Len(shared_packages) :
           /\ shared_packages[i].id \in {call.localId, call.eventId}
           /\ DraftOf(shared_packages[i]) = call.draft

\* C13: whenever a publish attempt of a write call has started, the local
\* write of that call is already in the store.
C13_LocalWriteBeforePublish ==
  (call.pc = "publishing" /\ pub.pc # "off") => LocalWriteInEffect

\* C14 as claimed: a write call whose signing failed ends in an error.
C14_SigningFailureReported ==
  call.signFailed => call.pc = "threw"

\* C14 as the code has it: a write call whose signing failed returns
\* normally without publishing; createPackage returns the local id under
\* which the listing is stored.
C14_SigningFailureIsSwallowed ==
  call.signFailed =>
    /\ call.pc = "returned"
    /\ pub.pc = "off"
    /\ call.rounds = 0
    /\ call.op \in {"createPackage", "createPackageSignFirst"} =>
         /\ call.ret = call.localId
         /\ \E i \in 1..Len(shared_packages) :
              /\ shared_packages[i].id = call.ret
              /\ DraftOf(shared_packages[i]) = call.draft

C14_Witness ==
  /\ call.signFailed
  /\ call.op = "createPackage"
  /\ call.ret \in LocalIds

\* An event parsePackageFromEvent cannot make a package of.
Malformed(event) ==
  \/ event = NullEvent
  \/ event.content.form # "object"
  \/ event.content.obj.title = ""
  \/ event.content.obj.pickupLocation = ""
  \/ event.content.obj.destination = ""
  \/ event.content.obj.cost = ""

\* C15: parsePackageFromEvent never throws, and for every malformed event
\* it returns null.
C15_DecodeNeverRaises ==
  codec.op = "decode" =>
    /\ codec.result # Thrown
    /\ Malformed(codec.event) => codec.result = NullPackage

C15_Witness ==
  /\ codec.op = "decode"
  /\ codec.event.content.form = "jsonnull"
  /\ codec.result = NullPackage

C17_ListEventsNeverFails ==
  /\ [](fetch.pc # "threw")
  /\ [](fetch.pc = "returned" /\ fetch.rejected = 3 => fetch.result = <<>>)
  /\ (fetch.pc \in {"fetching", "waiting"} /\ fetch.rejected > 0
        ~> fetch.pc = "returned")

C17_Witness ==
  /\ fetch.pc = "returned"
  /\ fetch.rejected > 0
  /\ Len(fetch.result) > 0

\* C19 as claimed: whatever the users of one store save, pick up, complete,
\* delete, export and import, the deliveries list ('my_deliveries_v2') never
\* holds two records with the same package id.
C19_OneDeliveryRecordPerId ==
  \A i, j \in 1..Len(my_deliveries) :
    my_deliveries[i].id = my_deliveries[j].id => i = j

\* The status getLocalPackageById finds for the id as user u: the record of
\* the available list u sees, else the first delivery record; "" when the
\* store has no record of the id.
StoredStatus(u, id) ==
  IF id \in SeqIds(getLocalPackagesOf(u))
  THEN FindById(getLocalPackagesOf(u), id).status
  ELSE FindById(my_deliveries, id).status

StatusRank(st) ==
  CASE st = "available" -> 1
    [] st = "in_transit" -> 2
    [] st = "delivered" -> 3
    [] OTHER -> 0

\* C18 as claimed: no step of the store's writing functions or of the two
\* reconciliations takes the stored status of a package back to an earlier
\* one of available, in_transit, delivered (a package that leaves the store
\* has no status to compare).
C18_StatusOnlyMovesForward ==
  [][\A u \in Users, id \in Ids :
       (StatusRank(StoredStatus(u, id)) > 0 /\ StatusRank(StoredStatus(u, id))' > 0)
         => StatusRank(StoredStatus(u, id))' >= StatusRank(StoredStatus(u, id))]_vars

\* Every order in which the relays may deliver the events.
ArrivalOrders(events) ==
  LET n == Len(events)
      orders == { p \in [1..n -> 1..n] : \A i, j \in 1..n : p[i] = p[j] => i = j }
  IN  { [i \in 1..n |-> events[p[i]]] : p \in orders }

StatusesOf(lists) ==
  <<[i \in 1..Len(lists.packages) |-> lists.packages[i].status],
    [i \in 1..Len(lists.deliveries) |-> lists.deliveries[i].status]>>

\* C20 as claimed: the statuses stored by verifyPackageStatuses and by
\* forceStatusRefresh are the same whatever the order in which the relays
\* delivered the events the call worked on.
C20_SameForEveryArrivalOrder ==
  [][/\ obs'.op = "verifyPackageStatuses" =>
          \A es \in ArrivalOrders(obs'.events) :
            StatusesOf(verifyPackageStatuses_lists(es)) = StatusesOf(StoredLists')
     /\ obs'.op = "forceStatusRefresh" =>
          \A es \in ArrivalOrders(obs'.events) :
            StatusesOf(forceStatusRefresh_lists(es)) = StatusesOf(StoredLists')]_vars

C22_ResolvedProbeHasClosedItsSocket ==
  probe.pc = "resolved" => probe.socket \in {"none", "closed"}

\* No filter at all, or a first filter without kinds.
MalformedFilter(filters) == Len(filters) = 0 \/ filters[1].kinds = {}

\* C23 as claimed: listEvents called with a malformed filter fails toward
\* its caller and asks no relay.
C23_MalformedFilterIsRejected ==
  (fetch.pc # "off" /\ MalformedFilter(fetch.filters)) => fetch.pc = "threw"

\* C23: listEvents never rejects a filter; called with no filter, or with a
\* first filter that has no kinds, it asks the relays for package events
\* (the default filter) and never fails toward its caller.
C23_MalformedFilterBecomesDefault ==
  (fetch.pc # "off" /\ MalformedFilter(fetch.filters)) =>
    /\ fetch.pc \in {"fetching", "waiting", "returned"}
    /\ fetch.kinds = {KIND_PACKAGE}

C23_Witness ==
  /\ fetch.pc = "returned"
  /\ fetch.filters = <<[kinds |-> {}]>>
  /\ Len(fetch.result) > 0

\* C24 as claimed: the wait publishEvent makes after its k-th failed attempt,
\* before attempt k + 1, lasts k times the base delay.
C24_BackoffIsLinear ==
  [][(/\ pub.pc = "waiting"
      /\ pub.retries < publishEvent_maxRetries
      /\ pub' # pub
      /\ pub'.elapsed = pub.elapsed)
       => pub.elapsed - pub.started = pub.retries * publishEvent_retryDelay]_vars

\* C25: publishEvent stops at the first broadcast round in which a relay
\* acknowledges. It returns that round's results, one entry per configured
\* relay in relay order, each telling whether that relay acknowledged, and
\* no round is started once a relay has acknowledged.
C25_StopsAtFirstAcknowledgedRound ==
  /\ [](pub.pc = "waiting" => pub.acks = 0)
  /\ []((pub.pc = "returned" /\ pub.acks > 0) =>
          /\ Len(pub.result) = NumRelays
          /\ \A r \in Relays :
               /\ pub.result[r].relay = r
               /\ pub.result[r].failed = (pub.settled[r] # "ok")
          /\ \E r \in Relays : ~pub.result[r].failed)
  /\ [][(pub.pc # "off" /\ pub.acks > 0) =>
          (pub'.pc = "off" \/ pub'.rounds = pub.rounds)]_vars

C25_Witness ==
  /\ pub.pc = "returned"
  /\ pub.rounds = 2
  /\ pub.acks > 0
  /\ \E r \in Relays : pub.result[r].failed

\* C26 as claimed: once a pickupPackage(id) has succeeded (the deliveries
\* hold a record of the id), getPackageById(id) never returns the package
\* with status available.
C26_PickedUpIsNeverShownAvailable ==
  (obs.op = "getPackageById" /\ obs.arg \in SeqIds(my_deliveries)) =>
    \A i \in 1..Len(obs.list) : obs.list[i].status # "available"

\* C27 as claimed: every package getPackages has just returned with status
\* available can be picked up by the user it was returned to: pickupPackage
\* with its id finds the package (pickupLocalPackage does not throw), also
\* when the package came from the relays alone.
C27_ListedAvailableCanBePickedUp ==
  obs.op = "getPackages" =>
    \A i \in 1..Len(obs.list) :
      obs.list[i].status = "available" => pickupLocalPackage_found(obs.list[i].id)

\* C28 as claimed: after one createPackage call has returned, getPackages
\* lists the listing of that call exactly once: of the id the call saved it
\* under and the id of the event it published, one and only one is the id of
\* a listed package.
C28_CreatedListingIsListedOnce ==
  (obs.op = "getPackages" /\ obs.draft # EmptyDraft) =>
    Cardinality({ i \in 1..Len(obs.list) :
                    /\ obs.list[i].id \in {obs.localId, obs.ret} \ {NoId}
                    /\ DraftOf(obs.list[i]) = obs.draft }) = 1

\* C29: a pickupPackage call for an id that is not in the list
\* getLocalPackages returns (unknown, or already picked up by the user)
\* throws, leaves the shared package list, its key and the deliveries list
\* exactly as they were, and publishes no delivery event.
C29_FailedPickupChangesNothing ==
  [][(/\ obs.op = "idle"
      /\ obs'.op = "pickupPackage"
      /\ obs'.arg \notin SeqIds(getLocalPackages))
     => /\ obs'.threw
        /\ ~obs'.published
        /\ shared_packages' = shared_packages
        /\ packagesKeySet' = packagesKeySet
        /\ my_deliveries' = my_deliveries]_vars

\* A pickup of a package the user has already picked up has thrown.
C29_Witness ==
  /\ obs.op = "pickupPackage"
  /\ obs.threw
  /\ obs.arg \in SeqIds(getMyLocalDeliveries)
  /\ obs.arg \notin SeqIds(getLocalPackages)

\* C30: deleteLocalPackage(id) returns true only when a stored package with
\* the id belongs to the current user, and then the stored list loses that
\* one entry and keeps every other entry in place; for a package of another
\* user or an unknown id it returns false and the stored list is unchanged.
\* The deliveries are never touched.
C30_OnlyTheOwnerDeletes ==
  [][(obs.op = "idle" /\ obs'.op = "deleteLocalPackage") =>
       LET id == obs'.arg
           mine == { i \in 1..Len(shared_packages) :
                       /\ shared_packages[i].id = id
                       /\ shared_packages[i].pubkey = nostr_pubkey }
           without(i) == [j \in 1..(Len(shared_packages) - 1) |->
                            IF j < i THEN shared_packages[j]
                            ELSE shared_packages[j + 1]]
       IN  /\ obs'.count \in {0, 1}
           /\ obs'.count = 1 => \E i \in mine : shared_packages' = without(i)
           /\ obs'.count = 0 => shared_packages' = shared_packages
           /\ (id \notin SeqIds(shared_packages)) => obs'.count = 0
           /\ (\A i \in 1..Len(shared_packages) :
                 shared_packages[i].id = id =>
                   shared_packages[i].pubkey # nostr_pubkey) => obs'.count = 0
           /\ my_deliveries' = my_deliveries]_vars

\* A delete of another user's stored package has been refused.
C30_Witness ==
  /\ obs.op = "deleteLocalPackage"
  /\ obs.count = 0
  /\ obs.arg \in SeqIds(shared_packages)
  /\ FindById(shared_packages, obs.arg).pubkey # nostr_pubkey

\* C31: importSharedPackages keeps every stored package in place, appends
\* exactly the exported packages whose id was not stored (each id once),
\* returns the number appended, and leaves every exported id stored, so that
\* an import of an export already imported appends nothing and returns 0.
C31_ImportMergesWithoutDuplicates ==
  [][(obs.op = "idle" /\ obs'.op = "importSharedPackages") =>
       LET before == Len(shared_packages)
           added == SubSeq(shared_packages', before + 1, Len(shared_packages'))
       IN  /\ Len(shared_packages') >= before
           /\ SubSeq(shared_packages', 1, before) = shared_packages
           /\ \A i \in 1..Len(added) :
                /\ added[i].id \notin SeqIds(shared_packages)
                /\ \E k \in 1..Len(shared_export) : shared_export[k] = added[i]
                /\ \A j \in 1..Len(added) : added[j].id = added[i].id => j = i
           /\ SeqIds(added) = SeqIds(shared_export) \ SeqIds(shared_packages)
           /\ obs'.count = Len(added)
           /\ SeqIds(shared_export) \subseteq SeqIds(shared_packages) =>
                (obs'.count = 0 /\ shared_packages' = shared_packages)
           /\ SeqIds(shared_export) \subseteq SeqIds(shared_packages')]_vars

\* An import has appended exported packages to a list that held others.
C31_Witness ==
  /\ obs.op = "importSharedPackages"
  /\ obs.count > 0
  /\ Len(shared_packages) > obs.count

\* C32 as claimed: a createPackage call, whose saveLocalPackage writes the
\* stored list, leaves every package that was stored in place and appends
\* the one new package.
C32_SaveOnlyAppends ==
  [][(obs.op = "idle" /\ obs'.op = "createPackage") =>
       /\ Len(shared_packages') = Len(shared_packages) + 1
       /\ SubSeq(shared_packages', 1, Len(shared_packages)) = shared_packages
       /\ shared_packages'[Len(shared_packages')].id = obs'.localId]_vars

C34_AtLeastThreeRelays ==
  /\ Len(getRelays) >= 3
  /\ getRelays = RELAYS \/ (relays.form = "array" /\ getRelays = relays.list)

\* The key holds a list of two addresses and getRelays returns the built-in
\* list.
C34_Witness ==
  /\ relays.present
  /\ relays.form = "array"
  /\ Len(relays.list) = 2
  /\ getRelays = RELAYS

completeDelivery_rounds == call.rounds + (IF pub.pc = "off" THEN 0 ELSE pub.rounds)

C38_OnlyTheNamedDeliveryChanges ==
  [][(obs.op = "idle" /\ obs'.op \in {"completeDelivery", "confirmLocalDelivery"}) =>
       /\ shared_packages' = shared_packages
       /\ packagesKeySet' = packagesKeySet
       /\ Len(my_deliveries') = Len(my_deliveries)
       /\ \A i \in 1..Len(my_deliveries) :
            my_deliveries'[i] =
              IF my_deliveries[i].id = obs'.arg
              THEN [my_deliveries[i] EXCEPT !.status = "delivered",
                                            !.delivery_time = clock]
              ELSE my_deliveries[i]
       /\ (obs'.arg \notin SeqIds(my_deliveries) =>
             /\ my_deliveries' = my_deliveries
             /\ ~obs'.threw)]_vars

\* A delivery was confirmed while another delivery of the user is still in
\* transit.
C38_Witness ==
  /\ obs.op = "confirmLocalDelivery"
  /\ \E i, j \in 1..Len(my_deliveries) :
       /\ my_deliveries[i].id = obs.arg
       /\ my_deliveries[i].status = "delivered"
       /\ my_deliveries[j].id # obs.arg
       /\ my_deliveries[j].status = "in_transit"

\* C39: an event whose sig is missing, empty or no string is never sent:
\* its publishEvent call starts no broadcast round in any attempt, no relay
\* is handed the event, and the call returns the empty list after its
\* attempts.
C39_UnsignedEventIsNeverSent ==
  /\ []((pub.pc # "off" /\ pub.form # "string") =>
          /\ pub.rounds = 0
          /\ pub.acks = 0
          /\ pub.pc # "round"
          /\ \A r \in Relays : pub.settled[r] = "none"
          /\ pub.result = <<>>)
  /\ ((pub.pc # "off" /\ pub.form # "string")
        ~> (pub.pc = "returned" /\ pub.form # "string"
              /\ pub.retries = publishEvent_maxRetries))

\* publishEvent has returned for an event whose sig is a number, after
\* three attempts.
C39_Witness ==
  /\ pub.pc = "returned"
  /\ pub.form = "number"
  /\ pub.retries = 3
  /\ pub.rounds = 0
  /\ pub.result = <<>>

====
